---- MODULE Spec2Model ----
(***************************************************************************)
(* Index-topic parsing and path resolution of canonicalwebteam.discourse:  *)
(* BaseParser / TutorialParser / EngageParser / DocParser.                 *)
(*                                                                         *)
(* Strings are sequences of one-character strings.  Three characters stand *)
(* for longer fixed substrings that the code only ever treats as a block:  *)
(*   "B"  the forum base URL (api.base_url, scheme and host),              *)
(*   "X"  the scheme and host of some other public site,                   *)
(*   "H"  the text "http:" that _match_url_with_topic puts in front of a   *)
(*        path that starts with "//".                                      *)
(* A Python dict is a sequence of <<key, value>> pairs in insertion order. *)
(* The URL map has keys of two types; a str key p is KS(p), an int key n   *)
(* is KI(n).                                                               *)
(***************************************************************************)
EXTENDS Integers, Sequences, FiniteSets, TLC

\* ------------------------------------------------------------------ bounds
MaxUrlRows == 2
MaxRedirectRows == 1
MaxWarnings == 1
MaxNavRows == 3

\* rows of the Redirects table given to _parse_redirect_map on its own
MaxRedirectTableRows == 2

\* top-level elements of an HTML document given to _get_section
MaxHtmlNodes == 4

\* ------------------------------------------------------------ Python str
Digits == {"0", "1", "2", "3", "4", "5", "6", "7", "8", "9"}

None == <<"None">>

StartsWith(s, p) == Len(p) <= Len(s) /\ SubSeq(s, 1, Len(p)) = p

EndsWith(s, p) == Len(p) <= Len(s) /\ SubSeq(s, Len(s) - Len(p) + 1, Len(s)) = p

RECURSIVE LStrip(_)
LStrip(s) == IF s # <<>> /\ Head(s) = "/" THEN LStrip(Tail(s)) ELSE s

RECURSIVE RStrip(_)
RStrip(s) ==
    IF s # <<>> /\ s[Len(s)] = "/" THEN RStrip(SubSeq(s, 1, Len(s) - 1)) ELSE s

\* the two strings put one after the other
PathJoinConcat(a, b) == a \o b

\* os.path.join(a, b) on POSIX
PathJoin(a, b) ==
    IF StartsWith(b, <<"/">>) THEN b
    ELSE IF a = <<>> \/ EndsWith(a, <<"/">>) THEN a \o b
    ELSE a \o <<"/">> \o b

\* s.split("/")[0]
RECURSIVE FirstSegment(_)
FirstSegment(s) ==
    IF s = <<>> \/ Head(s) = "/" THEN <<>> ELSE <<Head(s)>> \o FirstSegment(Tail(s))

\* int() of a string of decimal digits
RECURSIVE ToInt(_)
ToInt(ds) ==
    IF ds = <<>> THEN 0
    ELSE 10 * ToInt(SubSeq(ds, 1, Len(ds) - 1))
         + (CHOOSE n \in 0..9 :
                <<"0", "1", "2", "3", "4", "5", "6", "7", "8", "9">>[n + 1] = ds[Len(ds)])

\* urlparse(url).path for a URL without query or fragment
RECURSIVE DropNetloc(_)
DropNetloc(s) == IF s = <<>> \/ Head(s) = "/" THEN s ELSE DropNetloc(Tail(s))

UrlPath(url) ==
    IF url # <<>> /\ Head(url) \in {"B", "X"} THEN Tail(url)
    ELSE IF StartsWith(url, <<"/", "/">>) THEN DropNetloc(SubSeq(url, 3, Len(url)))
    ELSE url

\* validators.url(location, public=True): an absolute URL with scheme and host
ValidatorsUrl(location) == location # <<>> /\ Head(location) \in {"B", "X"}

\* ------------------------------------------------------- TOPIC_URL_MATCH
\* r"(?:/t)?(?:/(?P<slug>[^/]+))?/(?P<topic_id>\d+)(?:/\d+)?" applied with
\* re.match: anchored at the start only.  The result is the text of the
\* topic_id group, or None when the pattern does not match.
RECURSIVE DigitRun(_, _)
DigitRun(s, i) ==
    IF i <= Len(s) /\ s[i] \in Digits THEN 1 + DigitRun(s, i + 1) ELSE 0

RECURSIVE NonSlashRun(_, _)
NonSlashRun(s, i) ==
    IF i <= Len(s) /\ s[i] # "/" THEN 1 + NonSlashRun(s, i + 1) ELSE 0

\* "/(?P<topic_id>\d+)" at position i
TopicIdAt(s, i) ==
    IF i <= Len(s) /\ s[i] = "/" /\ DigitRun(s, i + 1) > 0
    THEN SubSeq(s, i + 1, i + DigitRun(s, i + 1))
    ELSE None

\* "(?:/(?P<slug>[^/]+))" at position i, then the topic id
SlugThenTopicIdAt(s, i) ==
    IF i <= Len(s) /\ s[i] = "/" /\ NonSlashRun(s, i + 1) > 0
    THEN TopicIdAt(s, i + 1 + NonSlashRun(s, i + 1))
    ELSE None

\* both optional groups are greedy: the regex engine tries "present" first
OptionalSlugAt(s, i) ==
    IF SlugThenTopicIdAt(s, i) # None THEN SlugThenTopicIdAt(s, i)
    ELSE TopicIdAt(s, i)

TOPIC_URL_MATCH(s) ==
    IF StartsWith(s, <<"/", "t">>) /\ OptionalSlugAt(s, 3) # None
    THEN OptionalSlugAt(s, 3)
    ELSE OptionalSlugAt(s, 1)

\* ------------------------------------------------------------ Python dict
KS(p) == <<"s", p>>
KI(n) == <<"i", n>>

IsStrKey(k) == k[1] = "s"
IsIntKey(k) == k[1] = "i"

DictHas(d, k) == \E i \in 1..Len(d) : d[i][1] = k

DictGet(d, k) == d[CHOOSE i \in 1..Len(d) : d[i][1] = k][2]

\* d[k] = v: an existing key keeps its position
DictSet(d, k, v) ==
    IF DictHas(d, k)
    THEN [i \in 1..Len(d) |-> IF d[i][1] = k THEN <<k, v>> ELSE d[i]]
    ELSE Append(d, <<k, v>>)

\* d.update(e)
RECURSIVE DictUpdate(_, _)
DictUpdate(d, e) ==
    IF e = <<>> THEN d
    ELSE DictUpdate(DictSet(d, Head(e)[1], Head(e)[2]), Tail(e))

DictKeys(d) == {d[i][1] : i \in 1..Len(d)}

\* ------------------------------------------------------------ exceptions
\* The outcome of a call: a returned value or the exception that escaped.
Returned(topic_id, version) ==
    [exc |-> "none", topic_id |-> topic_id, version |-> version, target_url |-> None]

PathNotFoundError ==
    [exc |-> "PathNotFoundError", topic_id |-> 0, version |-> None, target_url |-> None]

RedirectFoundError(target_url) ==
    [exc |-> "RedirectFoundError", topic_id |-> 0, version |-> None,
     target_url |-> target_url]

KeyError ==
    [exc |-> "KeyError", topic_id |-> 0, version |-> None, target_url |-> None]

TypeError ==
    [exc |-> "TypeError", topic_id |-> 0, version |-> None, target_url |-> None]

\* --------------------------------------------------------------- the forum
base_url == <<"B">>

\* BaseParser._match_url_with_topic
_match_url_with_topic(path) ==
    LET p1 == IF StartsWith(path, <<"/", "/">>) THEN <<"H">> \o path ELSE path
        p2 == IF StartsWith(p1, base_url) THEN SubSeq(p1, Len(base_url) + 1, Len(p1))
              ELSE p1
    IN  TOPIC_URL_MATCH(p2)

\* BaseParser._get_url_topic_id: the topic id, or 0 when PathNotFoundError
\* is raised (no match, or the id is 0)
_get_url_topic_id(path) ==
    IF _match_url_with_topic(path) = None THEN 0
    ELSE ToInt(_match_url_with_topic(path))

\* ------------------------------------------------------------- warnings
UrlMapWarning == <<"Could not parse URL map item {item}", None>>
RedirectCellWarning == <<"Could not parse redirect map", None>>
RedirectPathWarning(path) == <<"Could not parse redirect map for", path>>
RedirectLocationWarning(location) == <<"Redirect map location is invalid", location>>
RedirectClashWarning(path) == <<"Redirect path clashes with URL map", path>>
InvalidLevelWarning(level) == <<"Invalid level used", level>>
MissingLinkWarning(path) == <<"Missing topic link for", path>>
MissingPathWarning(topic_url) == <<"Missing topic path for", topic_url>>
MetadataWarning == <<"Failed to parse metadata correctly", None>>

\* ------------------------------------------------ BaseParser._parse_url_map
\* A row of the table is [href, path]: href is None when the first cell has
\* no anchor with an href, path is None when the row has no second cell.
HomePath(url_prefix) ==
    IF url_prefix # <<"/">> /\ EndsWith(url_prefix, <<"/">>) THEN RStrip(url_prefix)
    ELSE url_prefix

PrettyPath(text, url_prefix) ==
    LET p1 == IF ~StartsWith(text, <<"/">>) THEN <<"/">> \o text ELSE text
    IN  IF ~StartsWith(p1, url_prefix) THEN url_prefix \o p1 ELSE p1

UrlRowAccepted(row, url_prefix) ==
    /\ row.href # None
    /\ row.path # None
    /\ TOPIC_URL_MATCH(UrlPath(row.href)) # None
    /\ StartsWith(PrettyPath(row.path, url_prefix), url_prefix)

\* the loop over the rows: the dict of pretty path -> topic id
RECURSIVE UrlRowsMap(_, _, _)
UrlRowsMap(rows, url_prefix, acc) ==
    IF rows = <<>> THEN acc
    ELSE UrlRowsMap(Tail(rows), url_prefix,
            IF UrlRowAccepted(Head(rows), url_prefix)
            THEN DictSet(acc, KS(PrettyPath(Head(rows).path, url_prefix)),
                         ToInt(TOPIC_URL_MATCH(UrlPath(Head(rows).href))))
            ELSE acc)

RECURSIVE UrlRowsWarnings(_, _)
UrlRowsWarnings(rows, url_prefix) ==
    IF rows = <<>> THEN <<>>
    ELSE (IF UrlRowAccepted(Head(rows), url_prefix) THEN <<>> ELSE <<UrlMapWarning>>)
         \o UrlRowsWarnings(Tail(rows), url_prefix)

\* the pairs taken as they are, not reversed
IdsToPathsUnreversed(d) == d

\* dict([reversed(pair) for pair in url_map.items()])
RECURSIVE IdsToPaths(_)
IdsToPaths(d) ==
    IF d = <<>> THEN <<>>
    ELSE LET rest == IdsToPaths(SubSeq(d, 1, Len(d) - 1))
             pair == d[Len(d)]
         IN  DictSet(rest, KI(pair[2]), pair[1][2])

AddHomePath(url_map, home_path, index) ==
    DictSet(DictSet(url_map, KS(home_path), index), KI(index), home_path)

\* A section is [present, rows]: present is FALSE when _get_section finds no
\* heading with the section's name and returns None.
_parse_url_map(section, url_prefix, index_topic_id) ==
    LET rows == IF section.present THEN section.rows ELSE <<>>
        paths == UrlRowsMap(rows, url_prefix, <<>>)
    IN  [url_map |-> AddHomePath(DictUpdate(paths, IdsToPaths(paths)),
                                 HomePath(url_prefix), index_topic_id),
         warnings |-> UrlRowsWarnings(rows, url_prefix)]

\* ------------------------------------------- BaseParser._parse_redirect_map
\* A row is [path, location]; path is None when the row has no first-child
\* td, location is None when it has no last-child td.
\* the checks without the one against the URL map
RedirectRowWarningNoClash(row, url_prefix, url_map) ==
    IF row.path = None \/ row.location = None THEN <<RedirectCellWarning>>
    ELSE IF ~StartsWith(row.path, url_prefix) THEN <<RedirectPathWarning(row.path)>>
    ELSE IF ~(StartsWith(row.location, url_prefix) \/ ValidatorsUrl(row.location))
         THEN <<RedirectLocationWarning(row.location)>>
    ELSE <<>>

RedirectRowWarning(row, url_prefix, url_map) ==
    IF row.path = None \/ row.location = None THEN <<RedirectCellWarning>>
    ELSE IF ~StartsWith(row.path, url_prefix) THEN <<RedirectPathWarning(row.path)>>
    ELSE IF ~(StartsWith(row.location, url_prefix) \/ ValidatorsUrl(row.location))
         THEN <<RedirectLocationWarning(row.location)>>
    ELSE IF DictHas(url_map, KS(row.path)) THEN <<RedirectClashWarning(row.path)>>
    ELSE <<>>

RECURSIVE RedirectRowsMap(_, _, _, _)
RedirectRowsMap(rows, url_prefix, url_map, acc) ==
    IF rows = <<>> THEN acc
    ELSE RedirectRowsMap(Tail(rows), url_prefix, url_map,
            IF RedirectRowWarning(Head(rows), url_prefix, url_map) = <<>>
            THEN DictSet(acc, Head(rows).path, Head(rows).location)
            ELSE acc)

\* the warnings when the loop ends at the first rejected row
RECURSIVE RedirectRowsWarningsUntilRejected(_, _, _)
RedirectRowsWarningsUntilRejected(rows, url_prefix, url_map) ==
    IF rows = <<>> THEN <<>>
    ELSE IF RedirectRowWarning(Head(rows), url_prefix, url_map) # <<>>
         THEN RedirectRowWarning(Head(rows), url_prefix, url_map)
    ELSE RedirectRowsWarningsUntilRejected(Tail(rows), url_prefix, url_map)

RECURSIVE RedirectRowsWarnings(_, _, _)
RedirectRowsWarnings(rows, url_prefix, url_map) ==
    IF rows = <<>> THEN <<>>
    ELSE RedirectRowWarning(Head(rows), url_prefix, url_map)
         \o RedirectRowsWarnings(Tail(rows), url_prefix, url_map)

_parse_redirect_map(section, url_prefix, url_map) ==
    LET rows == IF section.present THEN section.rows ELSE <<>>
    IN  [redirect_map |-> RedirectRowsMap(rows, url_prefix, url_map, <<>>),
         warnings |-> RedirectRowsWarnings(rows, url_prefix, url_map)]

\* ------------------------------------------------------------- DocParser
\* A version is [index, path, version, nav_items]; a navigation item is
\* [level, path, navlink_href, navlink_text, children].
\* self.versions = None is the one-element list NoVersions.
NoVersions == <<[index |-> 0, path |-> None, version |-> None, nav_items |-> <<>>]>>

\* str.isnumeric() for the characters of the model
IsNumeric(s) == s # <<>> /\ \A i \in 1..Len(s) : s[i] \in Digits

\* DocParser._parse_version_table.  The Navigation section is
\* [present, vtable, ntable]: the rows of the table with a Version header and
\* of the table with a Navlink header (no rows when there is no such table).
\* A version row is [path, href, text], href None when the cell has no link.
VersionRowRaises(row) == row.href # None /\ _get_url_topic_id(row.href) = 0

VersionOfRow(row, index_topic_id) ==
    [index |-> IF row.href = None \/ row.path = <<>> THEN index_topic_id
               ELSE _get_url_topic_id(row.href),
     path |-> row.path,
     version |-> row.text,
     nav_items |-> <<>>]

_parse_version_table(section, index_topic_id) ==
    IF ~section.present THEN [exc |-> "none", versions |-> NoVersions]
    ELSE IF section.vtable = <<>>
    THEN [exc |-> "none",
          versions |-> <<[index |-> index_topic_id, path |-> <<>>,
                          version |-> <<"l">>, nav_items |-> <<>>]>>]
    ELSE IF \E i \in 1..Len(section.vtable) : VersionRowRaises(section.vtable[i])
    THEN [exc |-> "PathNotFoundError", versions |-> <<>>]
    ELSE [exc |-> "none",
          versions |-> [i \in 1..Len(section.vtable) |->
                            VersionOfRow(section.vtable[i], index_topic_id)]]

\* DocParser._parse_navigation_table.  A navigation row is
\* [level, path, href, text]; path is None when the row has one cell only
\* (row.select_one("td:nth-of-type(2)") is None and .text raises).
NavRowValid(row) == IsNumeric(row.level) /\ ToInt(row.level) >= 0

NavRowRaises(row) == NavRowValid(row) /\ row.path = None

RECURSIVE NavRowsItems(_)
NavRowsItems(rows) ==
    IF rows = <<>> THEN <<>>
    ELSE (IF NavRowValid(Head(rows))
          THEN <<[level |-> ToInt(Head(rows).level), path |-> Head(rows).path,
                  navlink_href |-> Head(rows).href, navlink_text |-> Head(rows).text,
                  children |-> <<>>]>>
          ELSE <<>>)
         \o NavRowsItems(Tail(rows))

\* the warnings appended to self.warnings, up to the row that raises
RECURSIVE NavRowsWarnings(_)
NavRowsWarnings(rows) ==
    IF rows = <<>> \/ NavRowRaises(Head(rows)) THEN <<>>
    ELSE (IF NavRowValid(Head(rows)) THEN <<>>
          ELSE <<InvalidLevelWarning(Head(rows).level)>>)
         \o NavRowsWarnings(Tail(rows))

_parse_navigation_table(section) ==
    LET rows == IF section.present THEN section.ntable ELSE <<>>
    IN  IF \E i \in 1..Len(rows) : NavRowRaises(rows[i])
        THEN [exc |-> "AttributeError", nav_items |-> <<>>,
              warnings |-> NavRowsWarnings(rows)]
        ELSE [exc |-> "none", nav_items |-> NavRowsItems(rows),
              warnings |-> NavRowsWarnings(rows)]

\* DocParser._parse_navigation_versions: main is the Navigation section of
\* the index topic, other the one of a version's own index topic (fetched).
\* The result's versions are self.versions with nav_items filled in place.
NavSectionOf(version, index_topic_id, main, other) ==
    IF version.index = index_topic_id THEN main ELSE other

RECURSIVE NavVersionsLoop(_, _, _, _, _)
NavVersionsLoop(versions, i, index_topic_id, main, other) ==
    IF i > Len(versions)
    THEN [exc |-> "none", versions |-> versions, navigations |-> <<>>, warnings |-> <<>>]
    ELSE LET table == _parse_navigation_table(
                          NavSectionOf(versions[i], index_topic_id, main, other))
             filled == [versions EXCEPT ![i].nav_items = table.nav_items]
             rest == NavVersionsLoop(filled, i + 1, index_topic_id, main, other)
         IN  IF table.exc # "none"
             THEN [exc |-> table.exc, versions |-> versions, navigations |-> <<>>,
                   warnings |-> table.warnings]
             ELSE [exc |-> rest.exc, versions |-> rest.versions,
                   navigations |-> rest.navigations,
                   warnings |-> table.warnings \o rest.warnings]

\* navigations[version["path"]] = version, in the order of the version list
RECURSIVE NavigationsDict(_)
NavigationsDict(versions) ==
    IF versions = <<>> THEN <<>>
    ELSE DictSet(NavigationsDict(SubSeq(versions, 1, Len(versions) - 1)),
                 versions[Len(versions)].path, versions[Len(versions)])

_parse_navigation_versions(versions, index_topic_id, main, other) ==
    IF versions = NoVersions
    THEN [exc |-> "TypeError", versions |-> versions, navigations |-> <<>>,
          warnings |-> <<>>]
    ELSE LET loop == NavVersionsLoop(versions, 1, index_topic_id, main, other)
         IN  [loop EXCEPT !.navigations =
                  IF loop.exc = "none" THEN NavigationsDict(loop.versions) ELSE <<>>]

\* DocParser._generate_url_map, one navigation item.  The effect is one of
\* "skip", "warn" (with the warning), "set" (path -> topic id), "raise".
\* self.index_topic is the topic dict fetched by parse: it never equals the
\* int that _get_url_topic_id returns, so the comparison of
\* "self.index_topic != self._get_url_topic_id(topic_url)" is always true.
IndexTopicIsNot(topic_id) == TRUE

Truthy(s) == s # None /\ s # <<>>

NavItemEffect(item, url_prefix) ==
    LET pretty_path == item.path
        topic_url == item.navlink_href
    IN  IF Truthy(pretty_path) /\ ~Truthy(topic_url)
        THEN [do |-> "warn", warning |-> MissingLinkWarning(pretty_path)]
        ELSE IF Truthy(topic_url) /\ ~Truthy(pretty_path)
        THEN IF _match_url_with_topic(topic_url) = None THEN [do |-> "skip"]
             ELSE IF _get_url_topic_id(topic_url) = 0 THEN [do |-> "raise"]
             ELSE IF IndexTopicIsNot(_get_url_topic_id(topic_url))
             THEN [do |-> "warn", warning |-> MissingPathWarning(topic_url)]
             ELSE [do |-> "skip"]
        ELSE IF ~Truthy(topic_url) \/ ~Truthy(pretty_path) THEN [do |-> "skip"]
        ELSE IF TOPIC_URL_MATCH(UrlPath(topic_url)) = None
                \/ ~StartsWith(PrettyPath(pretty_path, url_prefix), url_prefix)
        THEN [do |-> "warn", warning |-> UrlMapWarning]
        ELSE [do |-> "set", path |-> PrettyPath(pretty_path, url_prefix),
              topic_id |-> ToInt(TOPIC_URL_MATCH(UrlPath(topic_url)))]

\* the loop over navigation["nav_items"]: NavItemApply is one pass of the
\* loop body for the effect of the item, NavItemsMap the loop
RECURSIVE NavItemsMap(_, _, _)
NavItemApply(effect, items, url_prefix, acc) ==
    IF effect.do = "raise"
    THEN [exc |-> "PathNotFoundError", url_map |-> acc, warnings |-> <<>>]
    ELSE [NavItemsMap(items, url_prefix,
                      IF effect.do = "set"
                      THEN DictSet(acc, KS(effect.path), effect.topic_id)
                      ELSE acc)
          EXCEPT !.warnings =
                     (IF effect.do = "warn" THEN <<effect.warning>> ELSE <<>>) \o @]

NavItemsMap(items, url_prefix, acc) ==
    IF items = <<>> THEN [exc |-> "none", url_map |-> acc, warnings |-> <<>>]
    ELSE NavItemApply(NavItemEffect(Head(items), url_prefix), Tail(items),
                      url_prefix, acc)

VersionUrlPrefix(url_prefix, version_path) ==
    IF version_path # <<>> THEN url_prefix \o <<"/">> \o version_path ELSE url_prefix

\* url_map[version_path] of one version: the reverse entries and the home
\* path added to the entries of its navigation items
VersionUrlMap(items_map, home_path, index) ==
    AddHomePath(DictUpdate(items_map, IdsToPaths(items_map)), home_path, index)

\* the loop over navigations.items(): GenerateVersion is one pass of the loop
\* body for the outcome of the loop over the version's items
RECURSIVE _generate_url_map(_, _)
GenerateVersion(items, version_path, navigation, navigations, url_prefix) ==
    IF items.exc # "none"
    THEN [exc |-> items.exc, url_map |-> <<>>, warnings |-> items.warnings]
    ELSE [_generate_url_map(navigations, url_prefix)
          EXCEPT !.url_map =
                     <<<<version_path,
                         VersionUrlMap(items.url_map,
                                       HomePath(VersionUrlPrefix(url_prefix, version_path)),
                                       navigation.index)>>>> \o @,
                 !.warnings = items.warnings \o @]

_generate_url_map(navigations, url_prefix) ==
    IF navigations = <<>> THEN [exc |-> "none", url_map |-> <<>>, warnings |-> <<>>]
    ELSE GenerateVersion(
             NavItemsMap(Head(navigations)[2].nav_items,
                         VersionUrlPrefix(url_prefix, Head(navigations)[1]), <<>>),
             Head(navigations)[1], Head(navigations)[2], Tail(navigations), url_prefix)

\* DocParser._generate_flat_url_map
RECURSIVE _generate_flat_url_map(_)
_generate_flat_url_map(url_map_versions) ==
    IF url_map_versions = <<>> THEN <<>>
    ELSE DictUpdate(
            _generate_flat_url_map(SubSeq(url_map_versions, 1, Len(url_map_versions) - 1)),
            url_map_versions[Len(url_map_versions)][2])

\* DocParser._process_nav_levels.  The nodes are placed in the order of the
\* list: parents[i] is the index in the list of the node to whose children
\* node i was appended, 0 for the root.  A node is shared by the list and by
\* the children of its parent, so an append to its children shows in both.
SyntheticRoot ==
    [level |-> 0, path |-> <<>>, navlink_href |-> None, navlink_text |-> None,
     children |-> <<>>]

\* nav_items.insert(0, ...) of a level 0 parent
WithLevelZeroParent(nav_items) ==
    IF nav_items # <<>> /\ nav_items[1].level # 0 THEN <<SyntheticRoot>> \o nav_items
    ELSE nav_items

ChildrenOf(parents, node) == {j \in 1..Len(parents) : parents[j] = node}

Max(S) == CHOOSE x \in S : \A y \in S : y <= x

\* the descent through the first child of each node instead of the last
RECURSIVE LastDescendantFirstChild(_, _, _)
LastDescendantFirstChild(parents, node, depth) ==
    IF depth = 0 THEN node
    ELSE IF ChildrenOf(parents, node) = {} THEN -1
    ELSE LastDescendantFirstChild(parents, -Max({-j : j \in ChildrenOf(parents, node)}),
                                  depth - 1)

\* last = last["children"][-1], depth times from node; -1 for the IndexError
\* of an empty children list on the way
RECURSIVE LastDescendant(_, _, _)
LastDescendant(parents, node, depth) ==
    IF depth = 0 THEN node
    ELSE IF ChildrenOf(parents, node) = {} THEN -1
    ELSE LastDescendant(parents, Max(ChildrenOf(parents, node)), depth - 1)

\* the loop over nav_items, up to the node that raises
RECURSIVE PlaceNodes(_, _)
PlaceNode(parent, nav_items, parents) ==
    IF parent = -1 THEN parents ELSE PlaceNodes(nav_items, Append(parents, parent))

PlaceNodes(nav_items, parents) ==
    IF Len(parents) = Len(nav_items) THEN parents
    ELSE PlaceNode(LastDescendant(parents, 0, nav_items[Len(parents) + 1].level),
                   nav_items, parents)

\* the children appended to node from index j on, each after the children
\* that it had before the call (none for the items of a navigation table,
\* its subtree for a root of a tree built by an earlier call)
RECURSIVE Subtrees(_, _, _, _)
Subtrees(nav_items, parents, node, j) ==
    IF j > Len(parents) THEN <<>>
    ELSE (IF parents[j] = node
          THEN <<[nav_items[j] EXCEPT
                     !.children = @ \o Subtrees(nav_items, parents, j, j + 1)]>>
          ELSE <<>>)
         \o Subtrees(nav_items, parents, node, j + 1)

\* [exc, forest, nav_items]: root["children"], and the list as the call
\* leaves it
NavLevelsPlaced(nav_items, parents) ==
    [exc |-> IF Len(parents) < Len(nav_items) THEN "IndexError" ELSE "none",
     forest |-> Subtrees(nav_items, parents, 0, 1),
     nav_items |-> [i \in 1..Len(nav_items) |->
                       IF i <= Len(parents)
                       THEN [nav_items[i] EXCEPT
                                !.children = @ \o Subtrees(nav_items, parents, i, i + 1)]
                       ELSE nav_items[i]]]

_process_nav_levels(nav_items) ==
    NavLevelsPlaced(WithLevelZeroParent(nav_items),
                    PlaceNodes(WithLevelZeroParent(nav_items), <<>>))

\* DocParser._generate_navigation: the links of the items replaced with
\* the pretty paths of their topics, up to the item whose link raises
NavLinkRaises(item) ==
    /\ Truthy(item.navlink_href)
    /\ _match_url_with_topic(item.navlink_href) # None
    /\ _get_url_topic_id(item.navlink_href) = 0

NavLinkReplaced(item, version_map) ==
    IF /\ Truthy(item.navlink_href)
       /\ _match_url_with_topic(item.navlink_href) # None
       /\ DictHas(version_map, KI(_get_url_topic_id(item.navlink_href)))
    THEN [item EXCEPT !.navlink_href =
                          DictGet(version_map, KI(_get_url_topic_id(item.navlink_href)))]
    ELSE item

RECURSIVE NavLinksReplaced(_, _)
NavLinksReplaced(nav_items, version_map) ==
    IF nav_items = <<>> \/ NavLinkRaises(Head(nav_items)) THEN nav_items
    ELSE <<NavLinkReplaced(Head(nav_items), version_map)>>
         \o NavLinksReplaced(Tail(nav_items), version_map)

\* [exc, navigation]: navigation is navigations[version_path] as the call
\* leaves it, with the tree in nav_items when the call returns
NavigationWithLevels(navigation, nav_items, levels) ==
    IF \E i \in 1..Len(navigation.nav_items) : NavLinkRaises(navigation.nav_items[i])
    THEN [exc |-> "PathNotFoundError",
          navigation |-> [navigation EXCEPT !.nav_items = nav_items]]
    ELSE IF levels.exc # "none"
    THEN [exc |-> levels.exc,
          navigation |-> [navigation EXCEPT !.nav_items = levels.nav_items]]
    ELSE [exc |-> "none", navigation |-> [navigation EXCEPT !.nav_items = levels.forest]]

NavigationWithLinks(navigation, nav_items) ==
    NavigationWithLevels(navigation, nav_items, _process_nav_levels(nav_items))

_generate_navigation(navigations, version_path, version_maps) ==
    IF ~DictHas(navigations, version_path)
    THEN [exc |-> "KeyError", navigation |-> None]
    ELSE NavigationWithLinks(
             DictGet(navigations, version_path),
             NavLinksReplaced(DictGet(navigations, version_path).nav_items,
                              DictGet(version_maps, version_path)))

\* ------------------------------------------------------------ the inputs
Parsers == {"TutorialParser", "EngageParser", "DocParser"}

UrlPrefixes == {<<"/">>, <<"/", "d">>, <<"/", "d", "/">>}

\* BaseParser.index_topic_id, fixed at construction
index_topic_id == 3

\* rows of a URLs (Metadata) table: topic 1 at /a and at a/2, topic 2 at
\* /a, the index topic at /b, topic 2 at the home path, and a row whose
\* link is no topic URL
UrlRows(prefix) ==
    [A |-> [href |-> <<"/", "t", "/", "a", "/", "1">>, path |-> <<"/", "a">>],
     B |-> [href |-> <<"B", "/", "t", "/", "a", "/", "1">>, path |-> <<"a", "/", "2">>],
     C |-> [href |-> <<"/", "t", "/", "b", "/", "2">>, path |-> <<"/", "a">>],
     Index |-> [href |-> <<"/", "3">>, path |-> <<"/", "b">>],
     Home |-> [href |-> <<"/", "2">>, path |-> HomePath(prefix)],
     NoTopic |-> [href |-> <<"X", "/", "p">>, path |-> <<"/", "a">>]]

UrlTables(prefix) ==
    { <<UrlRows(prefix).A>>, <<UrlRows(prefix).A, UrlRows(prefix).B>>,
      <<UrlRows(prefix).A, UrlRows(prefix).C>>, <<UrlRows(prefix).C, UrlRows(prefix).B>>,
      <<UrlRows(prefix).Index>>, <<UrlRows(prefix).Home>>,
      <<UrlRows(prefix).NoTopic, UrlRows(prefix).A>>,
      <<UrlRows(prefix).A, UrlRows(prefix).B, UrlRows(prefix).C>>,
      <<UrlRows(prefix).Home, UrlRows(prefix).Index, UrlRows(prefix).NoTopic>> }

\* rows of a Redirects table: /r to /a, /a to another site, /a to a
\* location that is no URL
RedirectRows(prefix) ==
    [R |-> [path |-> PrettyPath(<<"/", "r">>, prefix),
            location |-> PrettyPath(<<"/", "a">>, prefix)],
     A |-> [path |-> PrettyPath(<<"/", "a">>, prefix), location |-> <<"X", "/", "p">>],
     Bad |-> [path |-> PrettyPath(<<"/", "a">>, prefix), location |-> <<"z">>]]

RedirectTables(prefix) ==
    { <<RedirectRows(prefix).R>>, <<RedirectRows(prefix).A>>, <<RedirectRows(prefix).Bad>>,
      <<RedirectRows(prefix).A, RedirectRows(prefix).Bad>>,
      <<RedirectRows(prefix).R, RedirectRows(prefix).A>> }

\* rows of a navigation table
NavRows ==
    [A |-> [level |-> <<"1">>, path |-> <<"a">>,
            href |-> <<"/", "t", "/", "a", "/", "1">>, text |-> <<"a">>],
     B |-> [level |-> <<"2">>, path |-> <<"/", "b">>,
            href |-> <<"B", "/", "t", "/", "a", "/", "1">>, text |-> <<"b">>],
     V |-> [level |-> <<"0">>, path |-> <<"v">>, href |-> <<"/", "2">>, text |-> <<"v">>],
     Index |-> [level |-> <<"1">>, path |-> <<"v", "/", "1">>, href |-> <<"/", "3">>,
                text |-> <<"i">>],
     NoLink |-> [level |-> <<"1">>, path |-> <<"b">>, href |-> None, text |-> <<"b">>],
     NoPath |-> [level |-> <<"1">>, path |-> <<>>,
                 href |-> <<"/", "t", "/", "b", "/", "2">>, text |-> <<"b">>],
     TopicZero |-> [level |-> <<"1">>, path |-> <<>>,
                    href |-> <<"/", "t", "/", "a", "/", "0">>, text |-> <<"a">>]]

\* rows of a version table: the default version, version "v" with the index
\* topic 4, and a version whose link is not a topic URL
VersionRows ==
    [Default |-> [path |-> <<>>, href |-> None, text |-> <<"l">>],
     V |-> [path |-> <<"v">>, href |-> <<"/", "t", "/", "v", "/", "4">>, text |-> <<"v">>],
     Bad |-> [path |-> <<"v">>, href |-> <<"X", "/", "p">>, text |-> <<"v">>]]

Absent == [present |-> FALSE, rows |-> <<>>]
Section(rows) == [present |-> TRUE, rows |-> rows]

NoNavigation == [present |-> FALSE, vtable |-> <<>>, ntable |-> <<>>]
Navigation(vtable, ntable) == [present |-> TRUE, vtable |-> vtable, ntable |-> ntable]

\* the Navigation section of the index topic of version "v" (topic 4)
OtherNavigation ==
    Navigation(<<>>, << [level |-> <<"1">>, path |-> <<"a">>,
                         href |-> <<"/", "t", "/", "c", "/", "5">>, text |-> <<"c">>],
                        [level |-> <<"1">>, path |-> <<"b">>,
                         href |-> <<"/", "3">>, text |-> <<"b">>] >>)

\* the cooked body of an index topic, as the tables the parsers read from it
NothingFetched ==
    [urls |-> Absent, redirects |-> Absent, navigation |-> NoNavigation,
     other |-> NoNavigation, overflow |-> FALSE]

\* the sections with a table of at most MaxUrlRows / MaxRedirectRows rows
UrlSections(prefix) ==
    {Absent} \cup {Section(rows) : rows \in {t \in UrlTables(prefix) : Len(t) <= MaxUrlRows}}

RedirectSections(prefix) ==
    {Absent} \cup {Section(rows) :
                      rows \in {t \in RedirectTables(prefix) : Len(t) <= MaxRedirectRows}}

NavigationSections ==
    { Navigation(<<>>, <<NavRows.A>>),
      Navigation(<<>>, <<NavRows.B>>),
      Navigation(<<>>, <<NavRows.NoLink, NavRows.NoPath>>),
      Navigation(<<VersionRows.Default, VersionRows.V>>, <<NavRows.A, NavRows.B>>),
      Navigation(<<VersionRows.Default, VersionRows.V>>, <<NavRows.V, NavRows.Index>>),
      Navigation(<<VersionRows.V, VersionRows.Default>>, <<NavRows.V, NavRows.Index>>),
      Navigation(<<VersionRows.V>>, <<NavRows.A>>) }

\* Navigation sections of the index topics that also have a Redirects table
NavigationSectionsWithRedirects ==
    {Navigation(<<>>, <<NavRows.A>>),
     Navigation(<<VersionRows.Default, VersionRows.V>>, <<NavRows.A, NavRows.B>>)}

\* Navigation sections on which DocParser.parse raises
BrokenNavigationSections ==
    {NoNavigation, Navigation(<<VersionRows.Default, VersionRows.Bad>>, <<NavRows.A>>),
     Navigation(<<>>, <<NavRows.A, NavRows.TopicZero>>)}

\* the index topics that the forum can return
TutorialTopics(prefix) ==
    { [NothingFetched EXCEPT !.urls = u, !.redirects = r] :
        u \in UrlSections(prefix), r \in RedirectSections(prefix) }

EngageTopics(prefix) ==
    { [NothingFetched EXCEPT !.urls = u, !.overflow = o] :
        u \in UrlSections(prefix), o \in BOOLEAN }

DocTopics(prefix) ==
    { [NothingFetched EXCEPT !.navigation = n, !.other = OtherNavigation] :
        n \in NavigationSections \cup BrokenNavigationSections }
    \cup { [NothingFetched EXCEPT !.navigation = n, !.redirects = r,
                                  !.other = OtherNavigation] :
             n \in NavigationSectionsWithRedirects,
             r \in RedirectSections(prefix) \ {Absent} }

\* request paths, relative to the blueprint's prefix
RequestPaths ==
    { <<"/">>, <<"/", "a">>, <<"/", "r">>, <<"/", "c">>, <<"/", "a", "/", "2">>,
      <<"/", "t", "/", "a", "/", "1">>, <<"/", "t", "/", "1">>, <<"/", "b", "/", "1">>,
      <<"/", "1">>, <<"/", "0">>, <<"/", "1", "/", "c">>,
      <<"/", "v", "/", "a">>, <<"/", "v", "/", "1">>, <<"/", "d", "/", "a">> }

\* ------------------------------------------------------------- the state
VARIABLES
    parser,            \* the class of the parser object
    url_prefix,        \* BaseParser.url_prefix
    index_topic,       \* BaseParser.index_topic: "None", or "fetched" (the topic)
    url_map,           \* BaseParser.url_map
    redirect_map,      \* BaseParser.redirect_map
    warnings,          \* BaseParser.warnings
    metadata,          \* BaseParser.metadata: [set, rows]
    versions,          \* DocParser.versions
    navigations,       \* DocParser.navigations
    url_map_versions,  \* DocParser.url_map_versions
    fetched,           \* the index topic that the last api.get_topic returned
    pc,                \* "idle", or "called" while the caller holds an outcome
    last,              \* the last call on the parser and its outcome
    request,           \* the request that a view of the blueprint is handling
    response           \* the response of the view to the request

vars == <<parser, url_prefix, index_topic, url_map, redirect_map, warnings, metadata,
          versions, navigations, url_map_versions, fetched, pc, last,
          request, response>>

config == <<parser, url_prefix>>

\* the state of the blueprint's views
blueprint == <<request, response>>

Call(op, path, out) == [op |-> op, path |-> path, out |-> out]

\* a request [view, path, index_fetches]: the view that handles it, the path
\* that the route gives the view, and the number of times that the view has
\* fetched the index topic so far
Request(view, path, index_fetches) ==
    [view |-> view, path |-> path, index_fetches |-> index_fetches]

NoRequest == Request("none", None, 0)

\* a response [kind, status, location, topic_id, headers, body]: a rendered
\* page (the document of topic_id, the discourse-warning headers), a
\* redirect to location, flask.abort(status), the list of URLs of the
\* sitemap (body), or an exception that escapes the view (kind "error")
Response(kind, status, location, topic_id, headers, body) ==
    [kind |-> kind, status |-> status, location |-> location, topic_id |-> topic_id,
     headers |-> headers, body |-> body]

NoResponse == Response("none", 0, None, 0, <<>>, <<>>)

Page(topic_id, headers) == Response("page", 200, None, topic_id, headers, <<>>)

Redirect(location) == Response("redirect", 302, location, 0, <<>>, <<>>)

Abort(status) == Response("abort", status, None, 0, <<>>, <<>>)

Sitemap(urls) == Response("sitemap", 200, None, 0, <<>>, urls)

Escapes(exc) == Response("error", 500, exc, 0, <<>>, <<>>)

NoException == Returned(0, None)

Raised(exc) == [NoException EXCEPT !.exc = exc]

\* BaseParser.__init__, DocParser.__init__
Init ==
    /\ parser \in Parsers
    /\ url_prefix \in UrlPrefixes
    /\ index_topic = "None"
    /\ url_map = <<>>
    /\ redirect_map = <<>>
    /\ warnings = <<>>
    /\ metadata = [set |-> FALSE, rows |-> <<>>]
    /\ versions = <<>>
    /\ navigations = <<>>
    /\ url_map_versions = <<>>
    /\ fetched = NothingFetched
    /\ pc = "idle"
    /\ last = Call("__init__", None, NoException)
    /\ request = NoRequest
    /\ response = NoResponse

\* ------------------------------------------------------------------ parse
\* TutorialParser.parse: what it assigns, for an index topic
TutorialParseResult(topic, prefix) ==
    LET urls == _parse_url_map(topic.urls, prefix, index_topic_id)
        redirects == _parse_redirect_map(topic.redirects, prefix, urls.url_map)
    IN  [url_map |-> urls.url_map, redirect_map |-> redirects.redirect_map,
         warnings |-> urls.warnings \o redirects.warnings]

\* EngageParser.parse.  topic.overflow: a row of the Metadata or Takeovers
\* table has more cells than the table has headers, so that titles[index]
\* raises the IndexError that parse catches.  The forum returns the topic
\* that was asked for, so index_topic["id"] == self.index_topic_id.
EngageParseResult(topic, prefix) ==
    LET urls == _parse_url_map(topic.urls, prefix, index_topic_id)
    IN  [url_map |-> urls.url_map,
         warnings |-> urls.warnings
                      \o (IF topic.overflow THEN <<MetadataWarning>> ELSE <<>>),
         metadata |-> [set |-> TRUE,
                       rows |-> IF topic.overflow THEN <<>> ELSE topic.urls.rows]]

\* DocParser.parse, with tutorials_index_topic_id left at None: the values
\* of its steps for an index topic, each step computed from the ones before
StepsToRedirects(vt, nv, gen, flat, topic, prefix) ==
    [vt |-> vt, nv |-> nv, gen |-> gen, flat |-> flat,
     redirects |-> _parse_redirect_map(topic.redirects, prefix, flat)]

StepsToFlatUrlMap(vt, nv, gen, topic, prefix) ==
    StepsToRedirects(vt, nv, gen, _generate_flat_url_map(gen.url_map), topic, prefix)

StepsToUrlMap(vt, nv, topic, prefix) ==
    StepsToFlatUrlMap(vt, nv, _generate_url_map(nv.navigations, prefix), topic, prefix)

StepsToNavigations(vt, topic, prefix) ==
    StepsToUrlMap(vt,
                  _parse_navigation_versions(vt.versions, index_topic_id,
                                             topic.navigation, topic.other),
                  topic, prefix)

DocParseSteps(topic, prefix) ==
    StepsToNavigations(_parse_version_table(topic.navigation, index_topic_id),
                       topic, prefix)

\* An exception leaves the attributes assigned so far and the warnings
\* appended so far; old holds the attributes before the call.
DocParseResult(steps, old) ==
    IF steps.vt.exc # "none" THEN [old EXCEPT !.exc = steps.vt.exc]
    ELSE IF steps.nv.exc # "none"
    THEN [old EXCEPT !.exc = steps.nv.exc, !.versions = steps.nv.versions,
                     !.warnings = @ \o steps.nv.warnings]
    ELSE IF steps.gen.exc # "none"
    THEN [old EXCEPT !.exc = steps.gen.exc, !.versions = steps.nv.versions,
                     !.navigations = steps.nv.navigations,
                     !.warnings = @ \o steps.nv.warnings \o steps.gen.warnings]
    ELSE [exc |-> "none", versions |-> steps.nv.versions,
          navigations |-> steps.nv.navigations,
          url_map_versions |-> steps.gen.url_map, url_map |-> steps.flat,
          redirect_map |-> steps.redirects.redirect_map,
          warnings |-> old.warnings \o steps.nv.warnings \o steps.gen.warnings
                       \o steps.redirects.warnings]

\* the index topics the forum can return under each prefix, each with what
\* parse computes for it: <<topic, result>>
TutorialRuns ==
    [prefix \in UrlPrefixes |->
        {<<topic, TutorialParseResult(topic, prefix)>> : topic \in TutorialTopics(prefix)}]

EngageRuns ==
    [prefix \in UrlPrefixes |->
        {<<topic, EngageParseResult(topic, prefix)>> : topic \in EngageTopics(prefix)}]

DocRuns ==
    [prefix \in UrlPrefixes |->
        {<<topic, DocParseSteps(topic, prefix)>> : topic \in DocTopics(prefix)}]

TutorialParse ==
    /\ parser = "TutorialParser"
    /\ \E run \in TutorialRuns[url_prefix] :
        /\ fetched' = run[1]
        /\ index_topic' = "fetched"
        /\ url_map' = run[2].url_map
        /\ redirect_map' = run[2].redirect_map
        /\ warnings' = run[2].warnings
    /\ last' = Call("parse", None, NoException)
    /\ UNCHANGED <<metadata, versions, navigations, url_map_versions>>

EngageParse ==
    /\ parser = "EngageParser"
    /\ \E run \in EngageRuns[url_prefix] :
        /\ fetched' = run[1]
        /\ url_map' = run[2].url_map
        /\ warnings' = run[2].warnings
        /\ metadata' = run[2].metadata
    /\ last' = Call("parse", None, NoException)
    /\ UNCHANGED <<index_topic, redirect_map, versions, navigations, url_map_versions>>

DocParse ==
    /\ parser = "DocParser"
    /\ \E run \in DocRuns[url_prefix] :
        LET result == DocParseResult(run[2],
                          [exc |-> "none", versions |-> versions,
                           navigations |-> navigations,
                           url_map_versions |-> url_map_versions, url_map |-> url_map,
                           redirect_map |-> redirect_map, warnings |-> warnings])
        IN  /\ fetched' = run[1]
            /\ index_topic' = "fetched"
            /\ versions' = result.versions
            /\ navigations' = result.navigations
            /\ url_map_versions' = result.url_map_versions
            /\ url_map' = result.url_map
            /\ redirect_map' = result.redirect_map
            /\ warnings' = result.warnings
            /\ last' = Call("parse", None, Raised(result.exc))
    /\ UNCHANGED metadata

\* parse() of the parser's class
Parse ==
    /\ pc = "idle"
    /\ Len(warnings) <= MaxWarnings
    /\ TutorialParse \/ EngageParse \/ DocParse
    /\ pc' = "called"
    /\ UNCHANGED <<config, blueprint>>

\* ----------------------------------------------------------- resolve_path
\* the topic id of a bare topic URL returned without the look-up of its
\* pretty path
BaseResolvePathNoPrettyPath(relative_path) ==
    LET full_path == PathJoin(url_prefix, LStrip(relative_path))
        topic_id == _get_url_topic_id(relative_path)
    IN  IF DictHas(redirect_map, full_path)
        THEN RedirectFoundError(DictGet(redirect_map, full_path))
        ELSE IF DictHas(url_map, KS(full_path))
        THEN Returned(DictGet(url_map, KS(full_path)), None)
        ELSE IF topic_id = 0 THEN PathNotFoundError
        ELSE Returned(topic_id, None)

\* BaseParser.resolve_path
BaseResolvePath(relative_path) ==
    LET full_path == PathJoin(url_prefix, LStrip(relative_path))
        topic_id == _get_url_topic_id(relative_path)
    IN  IF DictHas(redirect_map, full_path)
        THEN RedirectFoundError(DictGet(redirect_map, full_path))
        ELSE IF DictHas(url_map, KS(full_path))
        THEN Returned(DictGet(url_map, KS(full_path)), None)
        ELSE IF topic_id = 0 THEN PathNotFoundError
        ELSE IF DictHas(url_map, KI(topic_id))
        THEN RedirectFoundError(DictGet(url_map, KI(topic_id)))
        ELSE Returned(topic_id, None)

\* DocParser.resolve_path
RequestVersion(relative_path) ==
    IF \E i \in 1..Len(versions) : versions[i].path = FirstSegment(LStrip(relative_path))
    THEN FirstSegment(LStrip(relative_path))
    ELSE <<>>

DocResolvePath(relative_path) ==
    LET version == RequestVersion(relative_path)
        full_path == PathJoin(url_prefix, LStrip(relative_path))
        topic_id == _get_url_topic_id(relative_path)
        version_map == DictGet(url_map_versions, version)
    IN  IF versions = NoVersions THEN TypeError
        ELSE IF DictHas(redirect_map, full_path)
        THEN RedirectFoundError(DictGet(redirect_map, full_path))
        ELSE IF ~DictHas(url_map_versions, version) THEN KeyError
        ELSE IF DictHas(version_map, KS(full_path))
        THEN Returned(DictGet(version_map, KS(full_path)), version)
        ELSE IF topic_id = 0 THEN PathNotFoundError
        ELSE IF DictHas(version_map, KI(topic_id))
        THEN RedirectFoundError(DictGet(version_map, KI(topic_id)))
        ELSE Returned(topic_id, version)

\* EngageParser.resolve_path
EngageResolvePath(relative_path) ==
    LET full_path == PathJoin(url_prefix, LStrip(relative_path))
    IN  IF DictHas(url_map, KS(full_path))
        THEN Returned(DictGet(url_map, KS(full_path)), None)
        ELSE PathNotFoundError

\* resolve_path of the parser's class; TutorialParser inherits BaseParser's
resolve_path(relative_path) ==
    IF parser = "DocParser" THEN DocResolvePath(relative_path)
    ELSE IF parser = "EngageParser" THEN EngageResolvePath(relative_path)
    ELSE BaseResolvePath(relative_path)

ResolvePath ==
    /\ pc = "idle"
    /\ \E relative_path \in RequestPaths :
          last' = Call("resolve_path", relative_path, resolve_path(relative_path))
    /\ pc' = "called"
    /\ UNCHANGED <<config, index_topic, url_map, redirect_map, warnings, metadata,
                   versions, navigations, url_map_versions, fetched, blueprint>>

\* DocParser.resolve_path_all_versions: the result as a dict in the order of
\* url_map_versions.keys()
AllVersionsPath(relative_path, current_version) ==
    IF StartsWith(relative_path, <<"/">> \o current_version \o <<"/">>)
    THEN SubSeq(relative_path, Len(current_version) + 2, Len(relative_path))
    ELSE relative_path

VersionRelativePath(version, relative_path) ==
    url_prefix \o (IF version # <<>> THEN <<"/">> \o version \o relative_path
                   ELSE relative_path)

AllVersionsEntry(version, version_map, version_relative_path) ==
    <<version, IF DictHas(version_map, KS(version_relative_path))
               THEN version_relative_path
               ELSE url_prefix \o <<"/">> \o version>>

resolve_path_all_versions(relative_path, current_version) ==
    [i \in 1..Len(url_map_versions) |->
        AllVersionsEntry(url_map_versions[i][1], url_map_versions[i][2],
                         VersionRelativePath(url_map_versions[i][1],
                                             AllVersionsPath(relative_path,
                                                             current_version)))]

ResolvePathAllVersions ==
    /\ pc = "idle"
    /\ parser = "DocParser"
    /\ \E relative_path \in RequestPaths, current_version \in {<<>>, <<"v">>} :
          last' = Call("resolve_path_all_versions", relative_path,
                       [exc |-> "none", version |-> current_version,
                        result |-> resolve_path_all_versions(relative_path,
                                                             current_version)])
    /\ pc' = "called"
    /\ UNCHANGED <<config, index_topic, url_map, redirect_map, warnings, metadata,
                   versions, navigations, url_map_versions, fetched, blueprint>>

\* the caller is done with the outcome of the call
Return ==
    /\ pc = "called"
    /\ pc' = "idle"
    /\ last' = Call("return", None, NoException)
    /\ UNCHANGED <<config, index_topic, url_map, redirect_map, warnings, metadata,
                   versions, navigations, url_map_versions, fetched, blueprint>>

\* Discourse._set_parser_warnings: the reset of parser.warnings
SetParserWarnings ==
    /\ pc = "idle"
    /\ warnings # <<>>
    /\ warnings' = <<>>
    /\ last' = Call("_set_parser_warnings", None, NoException)
    /\ UNCHANGED <<config, index_topic, url_map, redirect_map, metadata, versions,
                   navigations, url_map_versions, fetched, pc, blueprint>>

Next == Parse \/ ResolvePath \/ Return \/ SetParserWarnings

Spec == Init /\ [][Next]_vars

\* a DocParser: parse() and the look-up of a path in every version
InitAllVersions == Init /\ parser = "DocParser"

NextAllVersions == Parse \/ ResolvePathAllVersions \/ Return

SpecAllVersions == InitAllVersions /\ [][NextAllVersions]_vars

\* --------------------------------------------------------- the blueprints
\* The topics of the forum by id, each with its slug: api.get_topic returns
\* the topic, and raises HTTPError (404) for an id that is not a topic.
ForumSlugs == << <<1, <<"a">>>>, <<3, <<"i">>>> >>

\* str(n) of a topic id
Str(n) == <<CHOOSE d \in Digits : ToInt(<<d>>) = n>>

\* document["topic_path"] of BaseParser.parse_topic
TopicPath(topic_id) ==
    <<"/", "t", "/">> \o DictGet(ForumSlugs, topic_id) \o <<"/">> \o Str(topic_id)

\* self.parser.warnings[-10:]
LastTen(seq) == SubSeq(seq, IF Len(seq) > 10 THEN Len(seq) - 9 ELSE 1, Len(seq))

\* Tutorials.document_view after self.parser.parse(): the response, for the
\* outcome out of resolve_path(path); a page is still without its headers.
\* The blueprint is registered under the url_prefix of its parser.
TutorialsDocument(out, path) ==
    IF path = <<"/">> THEN Page(index_topic_id, <<>>)
    ELSE IF out.exc = "RedirectFoundError" THEN Redirect(out.target_url)
    ELSE IF out.exc = "PathNotFoundError" THEN Abort(404)
    ELSE IF out.topic_id = index_topic_id THEN Redirect(url_prefix)
    ELSE IF ~DictHas(ForumSlugs, out.topic_id) THEN Abort(404)
    ELSE IF ~DictHas(url_map, KI(out.topic_id)) /\ TopicPath(out.topic_id) # path
    THEN Redirect(TopicPath(out.topic_id))
    ELSE Page(out.topic_id, <<>>)

\* Docs.document_view after self.parser.parse(), up to parse_topic:
\* [response, version], a page when parse_topic is to be called with version
DocsResolved(out, path) ==
    IF path = <<"/">> THEN [response |-> Page(index_topic_id, <<>>), version |-> <<>>]
    ELSE [version |-> out.version,
          response |->
              IF out.exc = "RedirectFoundError" THEN Redirect(out.target_url)
              ELSE IF out.exc = "PathNotFoundError" THEN Abort(404)
              ELSE IF out.exc # "none" THEN Escapes(out.exc)
              ELSE IF out.topic_id = index_topic_id THEN Redirect(url_prefix)
              ELSE IF ~DictHas(ForumSlugs, out.topic_id) THEN Abort(404)
              ELSE Page(out.topic_id, <<>>)]

\* Docs.document_view after parse_topic, whose _generate_navigation had the
\* outcome generated
DocsDocument(resolved, path, generated) ==
    IF generated.exc # "none" THEN Escapes(generated.exc)
    ELSE IF /\ path # <<"/">>
            /\ ~DictHas(DictGet(url_map_versions, resolved.version),
                        KI(resolved.response.topic_id))
            /\ TopicPath(resolved.response.topic_id) # path
    THEN Redirect(TopicPath(resolved.response.topic_id))
    ELSE resolved.response

\* navigation["nav_items"] is assigned, and its items are changed, in the
\* dict that self.navigations and self.versions share
VersionsWith(navigation) ==
    [i \in 1..Len(versions) |->
        IF i = Max({j \in 1..Len(versions) : versions[j].path = navigation.path})
        THEN navigation ELSE versions[i]]

\* the end of document_view: a page is returned by _set_parser_warnings
\* with the warnings as headers, any other response leaves the warnings
SendDocument(document) ==
    /\ response' = IF document.kind = "page"
                   THEN [document EXCEPT !.headers = LastTen(warnings)]
                   ELSE document
    /\ warnings' = IF document.kind = "page" THEN <<>> ELSE warnings

TutorialsRespond(path) ==
    /\ parser = "TutorialParser"
    /\ SendDocument(TutorialsDocument(resolve_path(path), path))
    /\ UNCHANGED <<versions, navigations>>

DocsParseTopic(resolved, path, generated) ==
    /\ SendDocument(DocsDocument(resolved, path, generated))
    /\ navigations' = IF generated.exc = "KeyError" THEN navigations
                      ELSE DictSet(navigations, resolved.version, generated.navigation)
    /\ versions' = IF generated.exc = "KeyError" THEN versions
                   ELSE VersionsWith(generated.navigation)

DocsRespondTo(resolved, path) ==
    IF resolved.response.kind # "page"
    THEN /\ response' = resolved.response
         /\ UNCHANGED <<warnings, versions, navigations>>
    ELSE DocsParseTopic(resolved, path,
                        _generate_navigation(navigations, resolved.version,
                                             url_map_versions))

DocsRespond(path) ==
    /\ parser = "DocParser"
    /\ DocsRespondTo(DocsResolved(resolve_path(path), path), path)

\* document_view up to the return of self.parser.parse(); an exception of
\* parse() escapes the view
DocumentViewParse ==
    /\ pc = "idle"
    /\ Len(warnings) <= MaxWarnings
    /\ TutorialParse \/ DocParse
    /\ request' = Request("document_view", None, 1)
    /\ IF last'.out.exc # "none"
       THEN pc' = "responded" /\ response' = Escapes(last'.out.exc)
       ELSE pc' = "parsed" /\ response' = NoResponse
    /\ UNCHANGED config

\* document_view from the path of the request on, which is drawn here, where
\* the view first reads it
DocumentViewRespond ==
    /\ pc = "parsed"
    /\ \E path \in RequestPaths :
          /\ request' = [request EXCEPT !.path = path]
          /\ last' = IF path = <<"/">> THEN last
                     ELSE Call("resolve_path", path, resolve_path(path))
          /\ TutorialsRespond(path) \/ DocsRespond(path)
    /\ pc' = "responded"
    /\ UNCHANGED <<config, index_topic, url_map, redirect_map, metadata,
                   url_map_versions, fetched>>

\* the string keys of a URL map, in the order of the dict
RECURSIVE StringKeys(_)
StringKeys(map) ==
    IF map = <<>> THEN <<>>
    ELSE (IF IsStrKey(Head(map)[1]) THEN <<Head(map)[1][2]>> ELSE <<>>)
         \o StringKeys(Tail(map))

\* Discourse.sitemap_view and Discourse.sitemap_xml
SitemapView ==
    /\ pc = "idle"
    /\ Len(warnings) <= MaxWarnings
    /\ TutorialParse \/ DocParse
    /\ request' = Request("sitemap_view", None, 1)
    /\ response' = IF last'.out.exc # "none" THEN Escapes(last'.out.exc)
                   ELSE Sitemap(StringKeys(url_map'))
    /\ pc' = "responded"
    /\ UNCHANGED config

\* the response is sent: the view is ready for the next request
Sent ==
    /\ pc = "responded"
    /\ pc' = "idle"
    /\ request' = NoRequest
    /\ response' = NoResponse
    /\ last' = Call("return", None, NoException)
    /\ UNCHANGED <<config, index_topic, url_map, redirect_map, warnings, metadata,
                   versions, navigations, url_map_versions, fetched>>

\* a Docs or a Tutorials blueprint with its parser
InitBlueprint == Init /\ parser \in {"TutorialParser", "DocParser"}

NextBlueprint == DocumentViewParse \/ DocumentViewRespond \/ SitemapView \/ Sent

SpecBlueprint == InitBlueprint /\ [][NextBlueprint]_vars

\* ------------------------------------------------- the navigation levels
\* The level cells of the rows of a navigation table: levels 0 to 3, "-1"
\* and a cell that is no number.
LevelCells == {<<"0">>, <<"1">>, <<"2">>, <<"3">>, <<"-", "1">>, <<"a">>}

\* the tables of up to MaxNavRows rows, row i with the path p<i> and no link
NavLevelTables ==
    UNION { {[i \in 1..n |-> [level |-> cells[i], path |-> <<"p">> \o Str(i),
                              href |-> None, text |-> Str(i)]] :
                cells \in [1..n -> LevelCells]} : n \in 0..MaxNavRows }

\* DocParser._parse_navigation_table for the only version of an index topic
\* without a version table, as _parse_navigation_versions calls it
ParseNavigationTable ==
    /\ pc = "idle"
    /\ last' = Call("_parse_navigation_table", None,
                    Raised(_parse_navigation_table(fetched.navigation).exc))
    /\ versions' = [versions EXCEPT
                       ![1].nav_items = _parse_navigation_table(fetched.navigation).nav_items]
    /\ warnings' = warnings \o _parse_navigation_table(fetched.navigation).warnings
    /\ pc' = "called"
    /\ UNCHANGED <<config, index_topic, url_map, redirect_map, metadata, navigations,
                   url_map_versions, fetched, blueprint>>

\* DocParser._process_nav_levels on the items of the version, as
\* _generate_navigation calls it and assigns its result
ProcessNavLevels ==
    /\ pc = "called" /\ last = Call("_parse_navigation_table", None, NoException)
    /\ last' = Call("_process_nav_levels", None,
                    Raised(_process_nav_levels(versions[1].nav_items).exc))
    /\ versions' = [versions EXCEPT
                       ![1].nav_items =
                           IF _process_nav_levels(versions[1].nav_items).exc = "none"
                           THEN _process_nav_levels(versions[1].nav_items).forest
                           ELSE _process_nav_levels(versions[1].nav_items).nav_items]
    /\ UNCHANGED <<config, index_topic, url_map, redirect_map, warnings, metadata,
                   navigations, url_map_versions, fetched, pc, blueprint>>

\* a DocParser that has fetched an index topic with a navigation table and
\* no version table
InitNavLevels ==
    /\ parser = "DocParser"
    /\ url_prefix = <<"/">>
    /\ index_topic = "fetched"
    /\ url_map = <<>>
    /\ redirect_map = <<>>
    /\ warnings = <<>>
    /\ metadata = [set |-> FALSE, rows |-> <<>>]
    /\ \E table \in NavLevelTables :
          fetched = [NothingFetched EXCEPT !.navigation = Navigation(<<>>, table)]
    /\ versions = _parse_version_table(fetched.navigation, index_topic_id).versions
    /\ navigations = <<>>
    /\ url_map_versions = <<>>
    /\ pc = "idle"
    /\ last = Call("_parse_version_table", None, NoException)
    /\ request = NoRequest
    /\ response = NoResponse

NextNavLevels == ParseNavigationTable \/ ProcessNavLevels

SpecNavLevels == InitNavLevels /\ [][NextNavLevels]_vars

\* ---------------------------------------- DocParser.parse_topic, repeated
\* Navigation sections of the index topic: a mapped link, a link without
\* path, two levels, two versions, a pretty path that reads as a topic URL,
\* a link to topic 0, a link to another site, links without path to the
\* index topic and to another topic
ParseTopicNavigations ==
    { Navigation(<<>>, <<NavRows.A>>),
      Navigation(<<>>, <<NavRows.NoLink, NavRows.NoPath>>),
      Navigation(<<>>, <<NavRows.A, [NavRows.B EXCEPT !.href = <<"/", "t", "/", "b", "/", "2">>]>>),
      Navigation(<<VersionRows.Default, VersionRows.V>>, <<NavRows.V, NavRows.Index>>),
      Navigation(<<>>, <<[NavRows.V EXCEPT !.path = <<"a", "/", "2">>,
                                           !.href = <<"/", "t", "/", "a", "/", "1">>],
                         NavRows.V>>),
      Navigation(<<>>, <<[NavRows.A EXCEPT !.path = <<"z">>,
                                           !.href = <<"/", "t", "/", "z", "/", "0">>],
                         NavRows.A>>),
      Navigation(<<>>, <<NavRows.A, [NavRows.A EXCEPT !.path = <<"x">>,
                                                      !.href = <<"X", "/", "p">>]>>),
      Navigation(<<>>, <<[NavRows.Index EXCEPT !.path = <<>>], NavRows.NoPath>>),
      Navigation(<<>>, <<NavRows.NoPath, NavRows.A, NavRows.NoPath>>) }

\* the attributes of the parser when parse() has returned with result
ParsedState(result) ==
    /\ result.exc = "none"
    /\ versions = result.versions
    /\ navigations = result.navigations
    /\ url_map_versions = result.url_map_versions
    /\ url_map = result.url_map
    /\ redirect_map = result.redirect_map
    /\ warnings = result.warnings

InitParseTopic ==
    /\ parser = "DocParser"
    /\ url_prefix \in UrlPrefixes
    /\ index_topic = "fetched"
    /\ \E n \in ParseTopicNavigations :
          fetched = [NothingFetched EXCEPT !.navigation = n, !.other = OtherNavigation]
    /\ ParsedState(DocParseResult(DocParseSteps(fetched, url_prefix),
                                  [exc |-> "none", versions |-> <<>>, navigations |-> <<>>,
                                   url_map_versions |-> <<>>, url_map |-> <<>>,
                                   redirect_map |-> <<>>, warnings |-> <<>>]))
    /\ metadata = [set |-> FALSE, rows |-> <<>>]
    /\ pc = "idle"
    /\ last = Call("return", None, NoException)
    /\ request = NoRequest
    /\ response = NoResponse

\* self.navigation = self._generate_navigation(self.navigations, docs_version)
\* of parse_topic: the navigation of the version is rewritten in place; the
\* caller makes no further call after an exception
ParseTopicWith(docs_version, generated) ==
    /\ navigations' = IF generated.exc = "KeyError" THEN navigations
                      ELSE DictSet(navigations, docs_version, generated.navigation)
    /\ versions' = IF generated.exc = "KeyError" THEN versions
                   ELSE VersionsWith(generated.navigation)
    /\ last' = Call("parse_topic", docs_version, Raised(generated.exc))
    /\ pc' = IF generated.exc = "none" THEN "called" ELSE "raised"

ParseTopic ==
    /\ pc = "idle"
    /\ \E docs_version \in {<<>>, <<"v">>} :
          ParseTopicWith(docs_version,
                         _generate_navigation(navigations, docs_version, url_map_versions))
    /\ UNCHANGED <<config, index_topic, url_map, redirect_map, warnings, metadata,
                   url_map_versions, fetched, blueprint>>

NextParseTopic == ParseTopic \/ Return

SpecParseTopic == InitParseTopic /\ [][NextParseTopic]_vars

\* ------------------------------------------------------------ EngagePages
\* A topic of api.get_engage_pages_by_param is [cooked, excluded]: excluded
\* says that topic[6] is in self.exclude_topics, and cooked, the soup of
\* topic[0], is [contents, th, rows]: whether the soup has a first element,
\* the number of th cells of that element and its tr rows. A row is the
\* sequence of its td cells and a cell is the sequence of its contents.
Cooked(contents, th, rows) == [contents |-> contents, th |-> th, rows |-> rows]

HeaderRow == <<>>

MetadataRow(key) == << <<key>>, <<"v">> >>

MetadataTable(keys) ==
    Cooked(TRUE, 2, <<HeaderRow>> \o [i \in 1..Len(keys) |-> MetadataRow(keys[i])])

\* EngagePages.page_type
PageTypes == {"engage-pages", "takeovers"}

\* the outcome of a call that returns a value or raises
Outcome(exc, value) == [exc |-> exc, value |-> value]

\* the for loop over the rows in parse_topics: the keys of metadata, or the
\* MetadataError of a row whose key or value cannot be read
RECURSIVE MetadataOfRows(_, _)
MetadataOfRows(rows, keys) ==
    IF rows = <<>> THEN Outcome("none", keys)
    ELSE LET row == Head(rows)
         IN  IF Len(row) = 0 THEN MetadataOfRows(Tail(rows), keys)
             ELSE IF row[1] = <<>> \/ Len(row) < 2 THEN Outcome("MetadataError", keys)
             ELSE MetadataOfRows(Tail(rows), keys \cup {row[1][1]})

\* EngagePages.engage_pages_healthcheck
engage_pages_healthcheck(keys, additional_metadata_validation) ==
    IF ({"path", "topic_name", "type", "active"} \cup additional_metadata_validation)
           \subseteq keys
    THEN "none" ELSE "MarkdownError"

\* EngagePages.takeovers_healthcheck
takeovers_healthcheck(keys, additional_metadata_validation) ==
    IF ({"title", "active"} \cup additional_metadata_validation) \subseteq keys
    THEN "none" ELSE "MarkdownError"

\* try: self.engage_pages_healthcheck(...) except MarkdownError: pass
ExceptMarkdownErrorPass(healthcheck) ==
    IF healthcheck = "MarkdownError" THEN "none" ELSE healthcheck

\* first_table.findAll("th")[0] and first_table.findAll("th")[1]
FirstTableHeaders(cooked) == IF cooked.th < 2 THEN "IndexError" ELSE "none"

\* EngagePages.parse_topics
parse_topics(cooked, page_type, additional_metadata_validation) ==
    IF ~cooked.contents \/ cooked.th = 0 THEN Outcome("MetadataError", {})
    ELSE LET rows == MetadataOfRows(cooked.rows, {})
             healthcheck ==
                 IF page_type = "takeovers"
                 THEN takeovers_healthcheck(rows.value, additional_metadata_validation)
                 ELSE engage_pages_healthcheck(rows.value, additional_metadata_validation)
         IN  IF rows.exc # "none" THEN rows
             ELSE IF ExceptMarkdownErrorPass(healthcheck) # "none"
             THEN Outcome(healthcheck, {})
             ELSE IF FirstTableHeaders(cooked) # "none"
             THEN Outcome(FirstTableHeaders(cooked), {})
             ELSE rows

\* the loop of get_index and of parse_active_takeovers over list_topics: the
\* positions of the topics whose metadata is appended, or the exception that
\* is not a MetadataError
RECURSIVE TopicsLoop(_, _, _, _, _)
TopicsLoop(list_topics, i, page_type, additional_metadata_validation, topics) ==
    IF i > Len(list_topics) THEN Outcome("none", topics)
    ELSE IF list_topics[i].excluded
    THEN TopicsLoop(list_topics, i + 1, page_type, additional_metadata_validation, topics)
    ELSE LET topics_index == parse_topics(list_topics[i].cooked, page_type,
                                          additional_metadata_validation)
         IN  IF topics_index.exc = "MetadataError"
             THEN TopicsLoop(list_topics, i + 1, page_type,
                             additional_metadata_validation, topics)
             ELSE IF topics_index.exc # "none" THEN Outcome(topics_index.exc, topics)
             ELSE TopicsLoop(list_topics, i + 1, page_type,
                             additional_metadata_validation, Append(topics, i))

\* the soups of the topics of the category
EngageCooked ==
    { Cooked(FALSE, 0, <<>>),
      Cooked(TRUE, 0, <<>>),
      Cooked(TRUE, 1, <<HeaderRow>>),
      Cooked(TRUE, 2, <<HeaderRow, <<<<"path">>>>>>),
      Cooked(TRUE, 2, <<HeaderRow, <<<<>>, <<"v">>>>>>),
      MetadataTable(<<"path", "topic_name", "type", "active">>),
      MetadataTable(<<"path", "topic_name", "type", "active", "x">>),
      MetadataTable(<<"title", "active">>),
      MetadataTable(<<"path", "type", "active">>),
      MetadataTable(<<"title">>) }

CategoryTopics == [cooked : EngageCooked, excluded : {FALSE}]
                    \cup [cooked : {MetadataTable(<<"title", "active", "x">>)},
                          excluded : {TRUE}]

MaxEngageTopics == 2

\* an EngagePages object: metadata holds its page_type and its
\* additional_metadata_validation, fetched the list_topics of the category
InitEngagePages ==
    /\ parser = "EngagePages"
    /\ url_prefix = <<"/">>
    /\ index_topic = "None"
    /\ url_map = <<>>
    /\ redirect_map = <<>>
    /\ warnings = <<>>
    /\ metadata \in [page_type : PageTypes,
                     additional_metadata_validation : {{}, {"x"}}]
    /\ versions = <<>>
    /\ navigations = <<>>
    /\ url_map_versions = <<>>
    /\ fetched \in UNION { [1..n -> CategoryTopics] : n \in 0..MaxEngageTopics }
    /\ pc = "idle"
    /\ last = Call("__init__", None, Outcome("none", <<>>))
    /\ request = NoRequest
    /\ response = NoResponse

\* EngagePages.get_index: topics, of the values that it returns
GetIndex ==
    /\ pc = "idle"
    /\ last' = Call("get_index", None,
                    TopicsLoop(fetched, 1, metadata.page_type,
                               metadata.additional_metadata_validation, <<>>))
    /\ pc' = "called"
    /\ UNCHANGED <<config, index_topic, url_map, redirect_map, warnings, metadata,
                   versions, navigations, url_map_versions, fetched, blueprint>>

\* EngagePages.parse_active_takeovers
ParseActiveTakeovers ==
    /\ pc = "idle"
    /\ last' = Call("parse_active_takeovers", None,
                    TopicsLoop(fetched, 1, metadata.page_type,
                               metadata.additional_metadata_validation, <<>>))
    /\ pc' = "called"
    /\ UNCHANGED <<config, index_topic, url_map, redirect_map, warnings, metadata,
                   versions, navigations, url_map_versions, fetched, blueprint>>

\* the caller takes the outcome
EngageReturn ==
    /\ pc = "called"
    /\ pc' = "idle"
    /\ UNCHANGED <<config, index_topic, url_map, redirect_map, warnings, metadata,
                   versions, navigations, url_map_versions, fetched, blueprint, last>>

NextEngagePages == GetIndex \/ ParseActiveTakeovers \/ EngageReturn

SpecEngagePages == InitEngagePages /\ [][NextEngagePages]_vars

\* --------------------------------------------------------------- Category
\* A topic of api.get_topic_list_by_category is [id, slug]: topic[0] and
\* topic[2]. In this part metadata holds the Category object and the calls
\* that it has made on the api: [category_topics, topic_list_calls,
\* get_topic_calls], and fetched holds the list that the forum has for the
\* category.
CategoryTopic(id, slug) == [id |-> id, slug |-> slug]

CategoryLists ==
    { <<>>,
      <<CategoryTopic(1, <<"a">>)>>,
      <<CategoryTopic(1, <<"a">>), CategoryTopic(2, <<"b">>)>>,
      <<CategoryTopic(index_topic_id, <<"i">>), CategoryTopic(1, <<"a">>)>> }

\* the paths of the route of the category view, before path = "/" + path
CategoryPaths == { <<>>, <<"a">>, <<"b">>, <<"c">>, <<"i">>, <<"a", "/", "b">> }

\* the status of the forum's answer to /t/<topic_id>.json for a topic_id that
\* is no topic of the forum
MissingTopicStatuses == {404, 410}

MaxApiCalls == 3

\* Category._query_category_topics: the Category object after the call; the
\* list that it returns is category_topics of that object
_query_category_topics(category) ==
    IF category.category_topics # <<>> THEN category
    ELSE [category EXCEPT !.category_topics = fetched,
                          !.topic_list_calls = @ + 1]

\* the None that _get_topic_id_from_path returns, among the topic ids, which
\* are positive
NoneTopicId == 0

\* the for loop of _get_topic_id_from_path
RECURSIVE TopicIdOfSlug(_, _)
TopicIdOfSlug(category_topics, path) ==
    IF category_topics = <<>> THEN NoneTopicId
    ELSE IF Head(category_topics).slug = path THEN Head(category_topics).id
    ELSE TopicIdOfSlug(Tail(category_topics), path)

\* Category._get_topic_id_from_path, on the object after _query_category_topics
_get_topic_id_from_path(category, path) ==
    Outcome("none", TopicIdOfSlug(category.category_topics, LStrip(path)))

\* self.parser.api.get_topic(topic_id) and what follows it in document_view
CategoryDocument(topic_id, status) ==
    IF topic_id = NoneTopicId THEN Abort(status) ELSE Page(topic_id, <<>>)

\* document_view of the Category blueprint
CategoryResponse(category, path, status) ==
    LET found == _get_topic_id_from_path(category, path)
    IN  IF path = <<"/">> THEN Page(index_topic_id, <<>>)
        ELSE IF found.exc = "PathNotFoundError" THEN Abort(404)
        ELSE IF found.value = index_topic_id THEN Redirect(url_prefix)
        ELSE CategoryDocument(found.value, status)

CategoryGetTopicCalled(category, path) ==
    /\ path # <<"/">>
    /\ _get_topic_id_from_path(category, path).exc = "none"
    /\ _get_topic_id_from_path(category, path).value # index_topic_id

CategoryDocumentView ==
    /\ pc = "idle"
    /\ metadata.topic_list_calls < MaxApiCalls
    /\ metadata.get_topic_calls < MaxApiCalls
    /\ \E route \in CategoryPaths, status \in MissingTopicStatuses :
          LET path == <<"/">> \o route
              category == IF path = <<"/">> THEN metadata
                          ELSE _query_category_topics(metadata)
          IN  /\ request' = Request("document_view", path, 0)
              /\ last' = IF path = <<"/">> THEN last
                         ELSE Call("_get_topic_id_from_path", path,
                                   _get_topic_id_from_path(category, path))
              /\ response' = CategoryResponse(category, path, status)
              /\ metadata' = IF CategoryGetTopicCalled(category, path)
                             THEN [category EXCEPT !.get_topic_calls = @ + 1]
                             ELSE category
    /\ pc' = "responded"
    /\ UNCHANGED <<config, index_topic, url_map, redirect_map, warnings,
                   versions, navigations, url_map_versions, fetched>>

\* Category.get_topics_in_category
GetTopicsInCategory ==
    /\ pc = "idle"
    /\ metadata.topic_list_calls < MaxApiCalls
    /\ metadata' = _query_category_topics(metadata)
    /\ last' = Call("get_topics_in_category", None,
                    Outcome("none", metadata'.category_topics))
    /\ request' = NoRequest
    /\ response' = NoResponse
    /\ pc' = "responded"
    /\ UNCHANGED <<config, index_topic, url_map, redirect_map, warnings,
                   versions, navigations, url_map_versions, fetched>>

\* the response is sent, the caller has the map: the object is ready for the
\* next call
CategorySent ==
    /\ pc = "responded"
    /\ pc' = "idle"
    /\ UNCHANGED <<config, index_topic, url_map, redirect_map, warnings, metadata,
                   versions, navigations, url_map_versions, fetched, last, blueprint>>

\* Category.__init__: self.category_topics = [], parse_index_topic()
InitCategory ==
    /\ parser = "CategoryParser"
    /\ url_prefix \in UrlPrefixes
    /\ index_topic = "fetched"
    /\ url_map = <<>>
    /\ redirect_map = <<>>
    /\ warnings = <<>>
    /\ metadata = [category_topics |-> <<>>, topic_list_calls |-> 0,
                   get_topic_calls |-> 0]
    /\ versions = <<>>
    /\ navigations = <<>>
    /\ url_map_versions = <<>>
    /\ fetched \in CategoryLists
    /\ pc = "idle"
    /\ last = Call("__init__", None, Outcome("none", <<>>))
    /\ request = NoRequest
    /\ response = NoResponse

NextCategory == CategoryDocumentView \/ GetTopicsInCategory \/ CategorySent

SpecCategory == InitCategory /\ [][NextCategory]_vars

\* ----------------------------------------------- BaseParser._get_section
\* An HTML soup is a sequence of elements [tag, text, children]; text nodes
\* between elements are left out, as find_next_siblings() and
\* find_previous_siblings() without arguments return the tags only.
Element(tag, text, children) == [tag |-> tag, text |-> text, children |-> children]

HeadingTags == {"h1", "h2", "h3", "h4", "h5", "h6"}

\* soup.find(re.compile("^h[1-6]$"), text=title_text) and
\* heading.fetchNextSiblings(): the first heading in document order whose
\* string is the title, with the siblings after it
RECURSIVE FindHeading(_, _)
FindHeading(soup, title_text) ==
    IF soup = <<>> THEN [found |-> FALSE, tag |-> "", siblings |-> <<>>]
    ELSE IF Head(soup).tag \in HeadingTags /\ Head(soup).text = title_text
    THEN [found |-> TRUE, tag |-> Head(soup).tag, siblings |-> Tail(soup)]
    ELSE IF FindHeading(Head(soup).children, title_text).found
    THEN FindHeading(Head(soup).children, title_text)
    ELSE FindHeading(Tail(soup), title_text)

\* section_soup.find(heading_tag) and next_heading.fetchPreviousSiblings(),
\* reversed: the first element of the tag in document order, at any depth,
\* with the siblings before it
RECURSIVE FindTag(_, _, _)
FindTag(soup, tag, previous) ==
    IF soup = <<>> THEN [found |-> FALSE, previous |-> <<>>]
    ELSE IF Head(soup).tag = tag THEN [found |-> TRUE, previous |-> previous]
    ELSE IF FindTag(Head(soup).children, tag, <<>>).found
    THEN FindTag(Head(soup).children, tag, <<>>)
    ELSE FindTag(Tail(soup), tag, Append(previous, Head(soup)))

\* the section of a found heading
SectionOf(heading, next_heading) ==
    [none |-> FALSE,
     section |-> IF next_heading.found THEN next_heading.previous ELSE heading.siblings]

SectionAfter(heading) ==
    IF ~heading.found THEN [none |-> TRUE, section |-> <<>>]
    ELSE SectionOf(heading, FindTag(heading.siblings, heading.tag, <<>>))

_get_section(soup, title_text) == SectionAfter(FindHeading(soup, title_text))

\* the elements of the documents: headings A and B of level 2, a heading of
\* level 3, paragraphs, and a div that holds a paragraph and a heading
HtmlElements ==
    { Element("h2", <<"A">>, <<>>), Element("h2", <<"B">>, <<>>),
      Element("h3", <<"C">>, <<>>), Element("p", <<"x">>, <<>>),
      Element("p", <<"y">>, <<>>),
      Element("div", <<>>, <<Element("p", <<"w">>, <<>>),
                             Element("h2", <<"B">>, <<>>)>>),
      Element("div", <<>>, <<Element("h2", <<"A">>, <<>>),
                             Element("p", <<"z">>, <<>>)>>) }

HtmlDocuments == UNION { [1..n -> HtmlElements] : n \in 0..MaxHtmlNodes }

\* self._get_section(soup, title_text) on the soup of the fetched topic
GetSection ==
    /\ pc = "idle"
    /\ \E title_text \in {<<"A">>, <<"C">>, <<"D">>} :
          last' = Call("_get_section", title_text, _get_section(fetched, title_text))
    /\ pc' = "called"
    /\ UNCHANGED <<config, index_topic, url_map, redirect_map, warnings, metadata,
                   versions, navigations, url_map_versions, fetched, blueprint>>

\* fetched is the soup of the cooked HTML of the topic
InitGetSection ==
    /\ parser = "TutorialParser"
    /\ url_prefix = <<"/">>
    /\ index_topic = "fetched"
    /\ fetched \in HtmlDocuments
    /\ url_map = <<>>
    /\ redirect_map = <<>>
    /\ warnings = <<>>
    /\ metadata = [set |-> FALSE, rows |-> <<>>]
    /\ versions = <<>>
    /\ navigations = <<>>
    /\ url_map_versions = <<>>
    /\ pc = "idle"
    /\ last = Call("get_topic", None, NoException)
    /\ request = NoRequest
    /\ response = NoResponse

SpecGetSection == InitGetSection /\ [][GetSection]_vars

\* ------------------------------------- parse() beside a concurrent request
\* Two requests on one DocParser: one is inside parse(), whose statements
\* are steps, the other ends document_view at any point between them.
\* pc is the position of the first in parse(): "versions" after the
\* assignment of self.versions, then one position per pass of the loop of
\* _parse_navigation_versions.
NavVersionsPc == <<"versions", "nav_items_1", "nav_items_2", "nav_items_3">>

NavVersionsPass == CHOOSE i \in 1..Len(NavVersionsPc) : NavVersionsPc[i] = pc

\* the index topics of the forum, one of them with an invalid level cell
ConcurrentTopics(prefix) ==
    { [NothingFetched EXCEPT !.navigation = n, !.other = OtherNavigation] :
        n \in NavigationSections }
    \cup {[NothingFetched EXCEPT !.navigation =
              Navigation(<<>>, <<[NavRows.A EXCEPT !.level = <<"a">>], NavRows.A>>)]}

\* self.index_topic = self.api.get_topic(...) up to
\* self.versions = self._parse_version_table(raw_index_soup)
ParseVersionTable ==
    /\ pc = "idle"
    /\ parser = "DocParser"
    /\ Len(warnings) <= MaxWarnings
    /\ \E topic \in ConcurrentTopics(url_prefix) :
          LET vt == _parse_version_table(topic.navigation, index_topic_id)
          IN  /\ fetched' = topic
              /\ versions' = IF vt.exc = "none" THEN vt.versions ELSE versions
              /\ pc' = IF vt.exc = "none" THEN "versions" ELSE "idle"
              /\ last' = Call("parse", None, Raised(vt.exc))
    /\ index_topic' = "fetched"
    /\ UNCHANGED <<config, url_map, redirect_map, warnings, metadata, navigations,
                   url_map_versions, blueprint>>

\* one pass of the loop of _parse_navigation_versions over self.versions:
\* version["nav_items"] = self._parse_navigation_table(...), which appends
\* its warnings to self.warnings; iterating None raises TypeError
ParseNavigationVersion ==
    /\ pc \in {NavVersionsPc[i] : i \in 1..Len(versions)}
    /\ LET table == _parse_navigation_table(
                         NavSectionOf(versions[NavVersionsPass], index_topic_id,
                                      fetched.navigation, fetched.other))
       IN  IF versions = NoVersions
           THEN /\ pc' = "idle"
                /\ last' = Call("parse", None, TypeError)
                /\ UNCHANGED <<versions, warnings>>
           ELSE /\ warnings' = warnings \o table.warnings
                /\ versions' = IF table.exc = "none"
                               THEN [versions EXCEPT ![NavVersionsPass].nav_items =
                                                         table.nav_items]
                               ELSE versions
                /\ pc' = IF table.exc = "none" THEN NavVersionsPc[NavVersionsPass + 1]
                         ELSE "idle"
                /\ last' = Call("parse", None, Raised(table.exc))
    /\ UNCHANGED <<config, index_topic, url_map, redirect_map, metadata, navigations,
                   url_map_versions, fetched, blueprint>>

\* the rest of parse(): self.navigations, self.url_map_versions, self.url_map
\* and self.redirect_map are assigned, self.warnings is extended
PublishMaps(steps) ==
    /\ navigations' = NavigationsDict(versions)
    /\ url_map_versions' = IF steps.gen.exc = "none" THEN steps.gen.url_map
                           ELSE url_map_versions
    /\ url_map' = IF steps.gen.exc = "none" THEN steps.flat ELSE url_map
    /\ redirect_map' = IF steps.gen.exc = "none" THEN steps.redirects.redirect_map
                       ELSE redirect_map
    /\ warnings' = warnings \o steps.gen.warnings
                    \o (IF steps.gen.exc = "none" THEN steps.redirects.warnings
                        ELSE <<>>)
    /\ last' = Call("parse", None, Raised(steps.gen.exc))

ParsePublish ==
    /\ pc = NavVersionsPc[Len(versions) + 1]
    /\ versions # NoVersions
    /\ PublishMaps(DocParseSteps(fetched, url_prefix))
    /\ pc' = "idle"
    /\ UNCHANGED <<config, index_topic, metadata, versions, fetched, blueprint>>

\* the end of document_view of the other request while parse() is running:
\* the template is rendered with versions=self.parser.versions and
\* _set_parser_warnings sends parser.warnings[-10:] and resets the list
ConcurrentResponse ==
    /\ pc # "idle"
    /\ response' = Response("page", 200, None, 0, LastTen(warnings), versions)
    /\ response' # response
    /\ warnings' = <<>>
    /\ UNCHANGED <<config, index_topic, url_map, redirect_map, metadata, versions,
                   navigations, url_map_versions, fetched, pc, last, request>>

InitConcurrent == Init /\ parser = "DocParser"

NextConcurrent ==
    ParseVersionTable \/ ParseNavigationVersion \/ ParsePublish \/ ConcurrentResponse

SpecConcurrent == InitConcurrent /\ [][NextConcurrent]_vars

\* ---------------------------------- BaseParser._parse_redirect_map alone
\* the rows of a Redirects table: those of RedirectRows, a row without a
\* first cell, a row whose path is not under the prefix, a second row for
\* /r, and a row for the URL of a topic
RedirectMapRows(prefix) ==
    { RedirectRows(prefix).R, RedirectRows(prefix).A, RedirectRows(prefix).Bad,
      [path |-> None, location |-> PrettyPath(<<"/", "a">>, prefix)],
      [path |-> <<"r">>, location |-> PrettyPath(<<"/", "a">>, prefix)],
      [path |-> PrettyPath(<<"/", "r">>, prefix), location |-> <<"X", "/", "q">>],
      [path |-> PrettyPath(<<"/", "t", "/", "c", "/", "5">>, prefix),
       location |-> PrettyPath(<<"/", "r">>, prefix)],
      [path |-> PrettyPath(<<"/", "a">>, prefix),
       location |-> PrettyPath(<<"/", "r">>, prefix)] }

RedirectMapTables(prefix) ==
    UNION { [1..n -> RedirectMapRows(prefix)] : n \in 0..MaxRedirectTableRows }

\* redirect_map, warnings = self._parse_redirect_map(index_soup)
ParseRedirectMap ==
    /\ pc = "idle"
    /\ redirect_map' = _parse_redirect_map(fetched.redirects, url_prefix, url_map).redirect_map
    /\ warnings' = _parse_redirect_map(fetched.redirects, url_prefix, url_map).warnings
    /\ last' = Call("_parse_redirect_map", None, NoException)
    /\ pc' = "called"
    /\ UNCHANGED <<config, index_topic, url_map, metadata, versions, navigations,
                   url_map_versions, fetched, blueprint>>

\* the index topic is fetched and self.url_map is set from its URLs section
InitRedirectMap ==
    /\ parser = "TutorialParser"
    /\ url_prefix \in UrlPrefixes
    /\ index_topic = "fetched"
    /\ \E urls \in {Absent, Section(<<UrlRows(url_prefix).A>>)},
          table \in RedirectMapTables(url_prefix) :
          fetched = [NothingFetched EXCEPT !.urls = urls, !.redirects = Section(table)]
    /\ url_map = _parse_url_map(fetched.urls, url_prefix, index_topic_id).url_map
    /\ redirect_map = <<>>
    /\ warnings = <<>>
    /\ metadata = [set |-> FALSE, rows |-> <<>>]
    /\ versions = <<>>
    /\ navigations = <<>>
    /\ url_map_versions = <<>>
    /\ pc = "idle"
    /\ last = Call("_parse_url_map", None, NoException)
    /\ request = NoRequest
    /\ response = NoResponse

SpecRedirectMap == InitRedirectMap /\ [][ParseRedirectMap]_vars

\* --------------------------------------------- BaseParser._replace_links
\* full_link.replace(self.api.base_url, "")
WithoutBaseUrl(full_link) == SelectSeq(full_link, LAMBDA c : c # Head(base_url))

\* the href that the loop body leaves on an anchor with the href full_link;
\* None is an anchor without href
ReplacedTopicLink(link, topic_id, full_path) ==
    IF DictHas(url_map, KI(topic_id)) THEN DictGet(url_map, KI(topic_id))
    ELSE IF DictHas(redirect_map, full_path) THEN DictGet(redirect_map, full_path)
    ELSE PathJoin(base_url, LStrip(link))

ReplacedLink(full_link, link) ==
    IF StartsWith(link, <<"/">>) /\ TOPIC_URL_MATCH(link) # None
    THEN ReplacedTopicLink(link, ToInt(TOPIC_URL_MATCH(link)),
                           PathJoin(url_prefix, LStrip(UrlPath(link))))
    ELSE full_link

_replace_links(href) ==
    IF href = None THEN None ELSE ReplacedLink(href, WithoutBaseUrl(href))

\* the hrefs of the anchors of a topic: none, topic URLs with and without
\* the forum's base URL, a user page, an upload, another site, a redirected
\* path
AnchorHrefs ==
    { None, <<"/", "t", "/", "a", "/", "1">>, <<"B", "/", "t", "/", "a", "/", "1">>,
      <<"/", "t", "/", "c", "/", "5">>, <<"/", "t", "/", "b", "/", "2">>,
      <<"/", "u", "/", "e">>, <<"B", "/", "u", "/", "e">>,
      <<"/", "u", "p", "/", "f">>, <<"X", "/", "t", "/", "a", "/", "1">>,
      <<"/", "r">>, <<"r">> }

\* self._replace_links(soup) for a soup with one anchor
ReplaceLinks ==
    /\ pc = "idle"
    /\ last.op = "return"
    /\ \E href \in AnchorHrefs :
          last' = Call("_replace_links", href, [exc |-> "none", href |-> _replace_links(href)])
    /\ pc' = "called"
    /\ UNCHANGED <<config, index_topic, url_map, redirect_map, warnings, metadata,
                   versions, navigations, url_map_versions, fetched, blueprint>>

NextReplaceLinks == ParseRedirectMap \/ ReplaceLinks \/ Return

SpecReplaceLinks == InitRedirectMap /\ [][NextReplaceLinks]_vars

\* ------------------------------------------- following the redirects
\* the redirect of flask.redirect(redirect.target_url) leads back to the
\* blueprint when the target is a path under its url_prefix
IsInternalTarget(target_url) == StartsWith(target_url, url_prefix)

\* the path document_view hands to resolve_path when the target is requested:
\* the part of the URL after the url_prefix of the blueprint, "/" + path
RequestedPath(target_url) ==
    <<"/">> \o LStrip(SubSeq(target_url, Len(url_prefix) + 1, Len(target_url)))

\* the paths of the first request
RedirectRequestPaths ==
    { <<"/", "r">>, <<"/", "a">>, <<"/", "c">>, <<"/", "0">>,
      <<"/", "t", "/", "c", "/", "5">>, <<"/", "t", "/", "a", "/", "1">> }

\* self.parser.resolve_path(path), for the path of a first request
ResolveRequest ==
    /\ pc = "called"
    /\ last.op = "_parse_redirect_map"
    /\ \E path \in RedirectRequestPaths :
          last' = Call("resolve_path", path, resolve_path(path))
    /\ pc' = "resolving"
    /\ UNCHANGED <<config, index_topic, url_map, redirect_map, warnings, metadata,
                   versions, navigations, url_map_versions, fetched, blueprint>>

\* except RedirectFoundError as redirect: return flask.redirect(...), and the
\* client requests the target
FollowRedirect ==
    /\ pc = "resolving"
    /\ last.out.exc = "RedirectFoundError"
    /\ IsInternalTarget(last.out.target_url)
    /\ last' = Call("resolve_path", RequestedPath(last.out.target_url),
                    resolve_path(RequestedPath(last.out.target_url)))
    /\ UNCHANGED <<config, index_topic, url_map, redirect_map, warnings, metadata,
                   versions, navigations, url_map_versions, fetched, blueprint, pc>>

NextFollowRedirects == ParseRedirectMap \/ ResolveRequest \/ FollowRedirect

\* a client that was redirected requests the target
SpecFollowRedirects ==
    InitRedirectMap /\ [][NextFollowRedirects]_vars /\ WF_vars(FollowRedirect)

\* ------------------------------------------- discourse_docs: the legacy model
\* A topic of the forum is [id, slug, category_id, cooked] and cooked is a
\* soup, as in _get_section. In this part fetched is the cooked HTML of the
\* frontpage topic.
ForumTopic(id, slug, category_id, cooked) ==
    [id |-> id, slug |-> slug, category_id |-> category_id, cooked |-> cooked]

\* DiscourseAPI.frontpage_id and DiscourseAPI.category_id
frontpage_id == <<"3">>

category_id == 15

NoteToEditors == Element("aside", <<"NOTE TO EDITORS">>, <<>>)

\* _process_html: the soup without the NOTE TO EDITORS containers
RECURSIVE _process_html(_)
_process_html(html) ==
    IF html = <<>> THEN <<>>
    ELSE IF Head(html) = NoteToEditors THEN _process_html(Tail(html))
    ELSE <<[Head(html) EXCEPT !.children = _process_html(@)]>>
         \o _process_html(Tail(html))

\* a document, and the value of a name that holds none
Document(title, body_html, forum_link, path) ==
    [title |-> title, body_html |-> body_html, forum_link |-> forum_link, path |-> path]

NoDocument == Document(<<>>, <<>>, <<>>, <<>>)

\* DiscourseAPI._parse_document_topic
_parse_document_topic(topic) ==
    Document(topic.slug, _process_html(topic.cooked),
             <<"B", "/", "t", "/">> \o topic.slug \o <<"/">> \o topic.id,
             <<"/">> \o topic.slug \o <<"/">> \o topic.id)

\* the topics of the forum besides the frontpage: one of the category and
\* one of another category
OtherForumTopics ==
    { ForumTopic(<<"1">>, <<"a">>, category_id,
                 <<Element("p", <<"x">>, <<>>), NoteToEditors>>),
      ForumTopic(<<"2">>, <<"b">>, 7, <<Element("p", <<"y">>, <<>>)>>) }

ForumTopics(frontpage_cooked) ==
    {ForumTopic(frontpage_id, <<"f">>, category_id, frontpage_cooked)}
        \cup OtherForumTopics

\* the answer of the forum to /t/<path>.json: the topic of the id, or of the
\* slug and id, a redirect for another slug before the id, 404 otherwise
TopicsOfPath(path, topics) ==
    {t \in topics : path = t.id \/ path = t.slug \o <<"/">> \o t.id}

RedirectedPaths(topics) == {<<"z", "/">> \o t.id : t \in topics}

\* the outcome of _get_topic and of get_document
Got(exc, topic) == [exc |-> exc, topic |-> topic]

\* DiscourseAPI._get_topic
_get_topic(path, topics) ==
    IF path \in RedirectedPaths(topics) THEN Got("RedirectFoundError", NoDocument)
    ELSE IF TopicsOfPath(path, topics) = {} THEN Got("HTTPError", NoDocument)
    ELSE LET topic == CHOOSE t \in TopicsOfPath(path, topics) : TRUE
         IN  IF topic.category_id # category_id THEN Got("HTTPError", NoDocument)
             ELSE Got("none", topic)

\* soup.find(re.compile("^h[1-6]$"), text="Content") with
\* splitpoint.fetchPreviousSiblings(), reversed, and fetchNextSiblings()
RECURSIVE FindSplitpoint(_, _)
FindSplitpoint(soup, previous) ==
    IF soup = <<>> THEN [found |-> FALSE, previous |-> <<>>, next |-> <<>>]
    ELSE IF Head(soup).tag \in HeadingTags /\ Head(soup).text = <<"Content">>
    THEN [found |-> TRUE, previous |-> previous, next |-> Tail(soup)]
    ELSE IF FindSplitpoint(Head(soup).children, <<>>).found
    THEN FindSplitpoint(Head(soup).children, <<>>)
    ELSE FindSplitpoint(Tail(soup), Append(previous, Head(soup)))

\* re.sub(f"^({self.base_url})?/t(/.*)$", r"\2", url)
LegacyLink(url) ==
    LET link == IF StartsWith(url, <<"B">>) THEN Tail(url) ELSE url
    IN  IF StartsWith(link, <<"/", "t", "/">>) THEN Tail(Tail(link)) ELSE url

\* for link in nav_soup.find_all("a")
RECURSIVE NavLinksConverted(_)
NavLinksConverted(nav) ==
    IF nav = <<>> THEN <<>>
    ELSE <<[Head(nav) EXCEPT !.text = IF Head(nav).tag = "a" THEN LegacyLink(@) ELSE @,
                             !.children = NavLinksConverted(@)]>>
         \o NavLinksConverted(Tail(nav))

\* the outcome of parse_frontpage and of get_document; document is
\* NavigationParseError.document when the call raises that error
Parsed(exc, document, nav_html) ==
    [exc |-> exc, document |-> document, nav_html |-> nav_html]

FrontpageSplit(frontpage_document, splitpoint) ==
    IF splitpoint.found
    THEN Parsed("none", [frontpage_document EXCEPT !.body_html = splitpoint.previous],
                NavLinksConverted(splitpoint.next))
    ELSE Parsed("NavigationParseError", frontpage_document, <<>>)

\* DiscourseAPI.parse_frontpage
parse_frontpage(topics) ==
    LET frontpage_topic == _get_topic(frontpage_id, topics)
    IN  IF frontpage_topic.exc # "none" THEN Parsed(frontpage_topic.exc, NoDocument, <<>>)
        ELSE FrontpageSplit(_parse_document_topic(frontpage_topic.topic),
                            FindSplitpoint(_parse_document_topic(
                                               frontpage_topic.topic).body_html, <<>>))

ErrorDocumentOfFrontpage(frontpage, document) == frontpage

\* the document that leaves get_document, given the frontpage document that
\* parse_frontpage left in the error: parse_error.document = document before
\* raise parse_error, and return document, nav_html
ErrorDocument(frontpage, document) == document

\* get_document from the comparison with the forum_link of the frontpage on
DocumentOf(path, topics, frontpage) ==
    IF <<"B", "/", "t", "/">> \o path = frontpage.document.forum_link
    THEN Parsed(frontpage.exc, ErrorDocument(frontpage.document, frontpage.document),
                frontpage.nav_html)
    ELSE LET topic == _get_topic(path, topics)
         IN  IF topic.exc # "none" THEN Parsed(topic.exc, NoDocument, <<>>)
             ELSE Parsed(frontpage.exc,
                         ErrorDocument(frontpage.document,
                                       _parse_document_topic(topic.topic)),
                         frontpage.nav_html)

\* DiscourseAPI.get_document
get_document(path, topics) ==
    LET frontpage == parse_frontpage(topics)
    IN  IF frontpage.exc \notin {"none", "NavigationParseError"} THEN frontpage
        ELSE DocumentOf(path, topics, frontpage)

\* the elements of the frontpage topic
FrontpageElements ==
    { Element("p", <<"x">>, <<>>),
      NoteToEditors,
      Element("h2", <<"Content">>, <<>>),
      Element("a", <<"B", "/", "t", "/", "a", "/", "1">>, <<>>),
      Element("div", <<>>, <<Element("h3", <<"Content">>, <<>>),
                             Element("a", <<"/", "t", "/", "b", "/", "2">>, <<>>)>>) }

MaxFrontpageNodes == 3

\* the paths of the documents that are requested
DocumentPaths ==
    { <<"f", "/", "3">>, <<"3">>, <<"a", "/", "1">>, <<"1">>, <<"b", "/", "2">>,
      <<"z", "/", "1">>, <<"x", "/", "9">> }

InitLegacy ==
    /\ parser = "DiscourseAPI"
    /\ url_prefix = <<"/">>
    /\ index_topic = "None"
    /\ url_map = <<>>
    /\ redirect_map = <<>>
    /\ warnings = <<>>
    /\ metadata = [set |-> FALSE, rows |-> <<>>]
    /\ versions = <<>>
    /\ navigations = <<>>
    /\ url_map_versions = <<>>
    /\ fetched \in UNION { [1..n -> FrontpageElements] : n \in 0..MaxFrontpageNodes }
    /\ pc = "idle"
    /\ last = Call("__init__", None, Parsed("none", NoDocument, <<>>))
    /\ request = NoRequest
    /\ response = NoResponse

\* document, nav_html = discourse.get_document(path)
GetDocument ==
    /\ pc = "idle"
    /\ \E path \in DocumentPaths :
          last' = Call("get_document", path, get_document(path, ForumTopics(fetched)))
    /\ pc' = "called"
    /\ UNCHANGED <<config, index_topic, url_map, redirect_map, warnings, metadata,
                   versions, navigations, url_map_versions, fetched, blueprint>>

\* the caller takes the outcome
LegacyReturn ==
    /\ pc = "called"
    /\ pc' = "idle"
    /\ last' = Call("return", None, Parsed("none", NoDocument, <<>>))
    /\ UNCHANGED <<config, index_topic, url_map, redirect_map, warnings, metadata,
                   versions, navigations, url_map_versions, fetched, blueprint>>

NextLegacy == GetDocument \/ LegacyReturn

SpecLegacy == InitLegacy /\ [][NextLegacy]_vars

\* ================================================================ claims
\* parse() of a parser of class p has just returned
ParsedBy(p) == parser = p /\ pc = "called" /\ last.op = "parse" /\ last.out.exc = "none"

\* the (pretty path, topic id) pair of an accepted row
UrlRowPair(row, prefix) ==
    <<PrettyPath(row.path, prefix), ToInt(TOPIC_URL_MATCH(UrlPath(row.href)))>>

\* the pairs of the accepted rows of the URLs table that the last parse read
AcceptedUrlPairs ==
    {UrlRowPair(fetched.urls.rows[i], url_prefix) :
        i \in {j \in 1..Len(fetched.urls.rows) :
                  UrlRowAccepted(fetched.urls.rows[j], url_prefix)}}

\* the pairs that _generate_url_map sets from the navigation items of a version
NavItemPairs(navigation) ==
    LET prefix == VersionUrlPrefix(url_prefix, navigation.path)
        items == navigation.nav_items
    IN  {<<NavItemEffect(items[i], prefix).path, NavItemEffect(items[i], prefix).topic_id>> :
            i \in {j \in 1..Len(items) : NavItemEffect(items[j], prefix).do = "set"}}

HomePair(prefix, index) == <<HomePath(prefix), index>>

MapsBothWays(map, pair) ==
    /\ DictHas(map, KS(pair[1])) /\ DictGet(map, KS(pair[1])) = pair[2]
    /\ DictHas(map, KI(pair[2])) /\ DictGet(map, KI(pair[2])) = pair[1]

\* another pair gives the path another topic, or the topic another path
Conflicts(pair, others) ==
    \E q \in others : (q[1] = pair[1] /\ q[2] # pair[2]) \/ (q[2] = pair[2] /\ q[1] # pair[1])

\* C1 as stated: after _parse_url_map (TutorialParser, EngageParser) and after
\* _generate_url_map (DocParser, per version) the map reads in both
\* directions, map[p] = t and map[t] = p, for every accepted row (p, t).
C1_BidirectionalForEveryRow ==
    /\ (ParsedBy("TutorialParser") \/ ParsedBy("EngageParser"))
          => \A pair \in AcceptedUrlPairs : MapsBothWays(url_map, pair)
    /\ ParsedBy("DocParser")
          => \A i \in 1..Len(navigations) :
                \A pair \in NavItemPairs(navigations[i][2]) :
                    MapsBothWays(DictGet(url_map_versions, navigations[i][1]), pair)

\* C1 amended: the map reads in both directions for every accepted row
\* (p, t) that no other accepted row and not the home pair contradicts, i.e.
\* none of them gives p another topic or t another path.
C1_BidirectionalForUncontestedRows ==
    /\ (ParsedBy("TutorialParser") \/ ParsedBy("EngageParser"))
          => \A pair \in AcceptedUrlPairs :
                Conflicts(pair, AcceptedUrlPairs
                                \cup {HomePair(url_prefix, index_topic_id)})
                \/ MapsBothWays(url_map, pair)
    /\ ParsedBy("DocParser")
          => \A i \in 1..Len(navigations) :
                LET navigation == navigations[i][2]
                    home == HomePair(VersionUrlPrefix(url_prefix, navigation.path),
                                     navigation.index)
                IN  \A pair \in NavItemPairs(navigation) :
                        Conflicts(pair, NavItemPairs(navigation) \cup {home})
                        \/ MapsBothWays(DictGet(url_map_versions, navigations[i][1]), pair)

\* two accepted rows of one table, neither contested
C1_Witness_TwoUncontestedRows ==
    /\ ParsedBy("TutorialParser")
    /\ Cardinality(AcceptedUrlPairs) = 2
    /\ \A pair \in AcceptedUrlPairs :
          ~Conflicts(pair, AcceptedUrlPairs \cup {HomePair(url_prefix, index_topic_id)})

\* C2 as stated: after parse() of any parser, url_map[home_path] is the
\* index topic id and url_map[index_topic_id] is home_path (url_prefix with a
\* trailing slash stripped unless it is "/"), whatever the tables contain.
C2_HomePairAfterParse ==
    (\E p \in Parsers : ParsedBy(p))
        => MapsBothWays(url_map, HomePair(url_prefix, index_topic_id))

\* the number of times x occurs in seq
Count(seq, x) == Cardinality({i \in 1..Len(seq) : seq[i] = x})

\* no string is a key of both maps
DisjointKeys(redirects, urls) ==
    \A i \in 1..Len(redirects) : ~DictHas(urls, KS(redirects[i][1]))

\* a step in which parse() of a parser that reads the Redirects table returns
ParseWithRedirectsStep ==
    /\ parser \in {"TutorialParser", "DocParser"}
    /\ pc = "idle" /\ pc' = "called"
    /\ last'.op = "parse" /\ last'.out.exc = "none"

\* the warnings that the parse pass of the step has recorded
RecordedByStep ==
    IF parser = "DocParser" THEN SubSeq(warnings', Len(warnings) + 1, Len(warnings'))
    ELSE warnings'

\* the rows of the Redirects table whose source path is path
RedirectRowsFor(rows, path) == {i \in 1..Len(rows) : rows[i].path = path}

\* the row has both cells, a source path under the prefix and a location
\* that is under the prefix or a public URL
RedirectRowWellFormed(row, prefix) ==
    /\ row.path # None /\ row.location # None
    /\ StartsWith(row.path, prefix)
    /\ StartsWith(row.location, prefix) \/ ValidatorsUrl(row.location)

\* C3 as stated: after any sequence of parse() calls no string is a key of
\* both redirect_map and url_map, and each Redirects row whose source path is
\* a key of the URL map of the same pass is dropped with exactly one
\* "clashes with URL map" warning for it.
C3_ClashDroppedWithOneWarning ==
    [][ /\ DisjointKeys(redirect_map', url_map')
        /\ ParseWithRedirectsStep
              => \A i \in 1..Len(fetched'.redirects.rows) :
                    LET path == fetched'.redirects.rows[i].path
                    IN  DictHas(url_map', KS(path))
                           => Count(RecordedByStep, RedirectClashWarning(path))
                              = Cardinality(RedirectRowsFor(fetched'.redirects.rows, path))
      ]_vars

\* C3 amended: the maps never share a string key; a Redirects row whose
\* source path is a key of the URL map is dropped, with exactly one "clashes
\* with URL map" warning if the row is well formed (source path under the
\* prefix, location under the prefix or a public URL) and with the warning
\* of the check it fails otherwise.
C3_ClashDroppedWithItsWarning ==
    [][ /\ DisjointKeys(redirect_map', url_map')
        /\ ParseWithRedirectsStep
              => \A i \in 1..Len(fetched'.redirects.rows) :
                    LET rows == fetched'.redirects.rows
                        path == rows[i].path
                    IN  DictHas(url_map', KS(path))
                           => /\ Count(RecordedByStep, RedirectClashWarning(path))
                                 = Cardinality({j \in RedirectRowsFor(rows, path) :
                                                   RedirectRowWellFormed(rows[j], url_prefix)})
                              /\ RedirectRowWellFormed(rows[i], url_prefix)
                                 \/ Count(RecordedByStep, RedirectCellWarning)
                                    + Count(RecordedByStep, RedirectPathWarning(path))
                                    + Count(RecordedByStep,
                                            RedirectLocationWarning(rows[i].location)) >= 1
      ]_vars

\* a well-formed Redirects row names a path of the URL map of the same pass
\* and is dropped with its warning
C3_Witness_ClashingRow ==
    /\ ParsedBy("TutorialParser")
    /\ \E i \in 1..Len(fetched.redirects.rows) :
          LET row == fetched.redirects.rows[i]
          IN  /\ DictHas(url_map, KS(row.path))
              /\ RedirectRowWellFormed(row, url_prefix)
              /\ ~DictHas(redirect_map, row.path)
              /\ Count(warnings, RedirectClashWarning(row.path)) = 1

\* resolve_path has just been called with last.path
Resolved == pc = "called" /\ last.op = "resolve_path"

\* the normalized request path: url_prefix joined with the stripped path
NormalizedPath(relative_path) == PathJoin(url_prefix, LStrip(relative_path))

\* C4 as stated: a request whose normalized path is a key of redirect_map
\* always raises RedirectFoundError with target_url = redirect_map[path], in
\* BaseParser.resolve_path and in DocParser.resolve_path.
C4_RedirectMapWins ==
    (Resolved /\ DictHas(redirect_map, NormalizedPath(last.path)))
        => last.out = RedirectFoundError(DictGet(redirect_map, NormalizedPath(last.path)))

\* C5 as stated: when the normalized request path is a key of the URL map
\* and not of the redirect map, resolve_path returns the topic id mapped to
\* that path and raises nothing.
C5_PrettyPathWins ==
    (/\ Resolved
     /\ DictHas(url_map, KS(NormalizedPath(last.path)))
     /\ ~DictHas(redirect_map, NormalizedPath(last.path)))
        => /\ last.out.exc = "none"
           /\ last.out.topic_id = DictGet(url_map, KS(NormalizedPath(last.path)))

\* C6 as stated: for every string key p of url_map after parse(),
\* resolve_path(p) returns url_map[p] and raises nothing, for every prefix.
C6_EveryKeyResolves ==
    (Resolved /\ DictHas(url_map, KS(last.path)))
        => /\ last.out.exc = "none"
           /\ last.out.topic_id = DictGet(url_map, KS(last.path))

\* C6 amended: resolve_path takes the path relative to the prefix.  For
\* TutorialParser and EngageParser, every prefix and every string key p of
\* url_map after parse() that is the prefix without its trailing slashes
\* followed by r, where r begins with one "/" and not with "//",
\* resolve_path(r) returns url_map[p] and raises nothing.
C6_EveryKeyResolvesRelative ==
    (/\ Resolved
     /\ parser # "DocParser"
     /\ StartsWith(last.path, <<"/">>) /\ ~StartsWith(last.path, <<"/", "/">>)
     /\ DictHas(url_map, KS(RStrip(url_prefix) \o last.path)))
        => /\ last.out.exc = "none"
           /\ last.out.topic_id = DictGet(url_map, KS(RStrip(url_prefix) \o last.path))

\* under the prefix "/d" the key "/d/a" is resolved by the request "/a"
C6_Witness_RelativeKeyResolved ==
    /\ Resolved
    /\ parser = "TutorialParser"
    /\ url_prefix = <<"/", "d">>
    /\ last.path = <<"/", "a">>
    /\ DictHas(url_map, KS(<<"/", "d", "/", "a">>))
    /\ last.out.exc = "none"

\* s.split("/")
RECURSIVE Split(_)
Split(s) ==
    IF Len(FirstSegment(s)) = Len(s) THEN <<s>>
    ELSE <<FirstSegment(s)>> \o Split(SubSeq(s, Len(FirstSegment(s)) + 2, Len(s)))

\* the segments of a path that begins with "/"
PathParts(path) == Tail(Split(path))

\* the topic ids that a path names when it is, as a whole, of the shape
\* [/t]/[slug/]<numeric-id>[/<post-number>]; no post number unless with_post
ShapeIds(path, with_post) ==
    LET parts == PathParts(path)
        n == Len(parts)
    IN  IF ~StartsWith(path, <<"/">>) \/ \E i \in 1..n : parts[i] = <<>> THEN {}
        ELSE {ToInt(parts[n - post]) :
                post \in {k \in (IF with_post THEN {0, 1} ELSE {0}) :
                            /\ n - k \in 1..3
                            /\ IsNumeric(parts[n - k])
                            /\ k = 1 => IsNumeric(parts[n])
                            /\ n - k = 3 => parts[1] = <<"t">>}}

C8_UnrecognizedPathNotFound ==
    (/\ Resolved
     /\ parser = "TutorialParser"
     /\ ~DictHas(redirect_map, NormalizedPath(last.path))
     /\ ~DictHas(url_map, KS(NormalizedPath(last.path)))
     /\ ShapeIds(last.path, TRUE) \subseteq {0})
        => last.out = PathNotFoundError

\* C9 as stated: in every state reachable by construction and parse()
\* calls, resolve_path returns or raises PathNotFoundError or
\* RedirectFoundError; no other error escapes.
C9_OnlyDeclaredErrors ==
    Resolved => last.out.exc \in {"none", "PathNotFoundError", "RedirectFoundError"}

\* C10 as stated: DocParser.parse and TutorialParser.parse complete without
\* raising for every index-topic body that the forum returns.
C10_ParseNeverRaises ==
    (pc = "called" /\ last.op = "parse" /\ parser \in {"DocParser", "TutorialParser"})
        => last.out.exc = "none"

\* seq ends with tail
EndsWithSeq(seq, tail) ==
    Len(tail) <= Len(seq) /\ SubSeq(seq, Len(seq) - Len(tail) + 1, Len(seq)) = tail

\* the attributes are as a parse() of the index topic fetched last, which
\* returned, has left them
AsParsed ==
    /\ index_topic = "fetched"
    /\ parser = "TutorialParser"
          => /\ url_map = TutorialParseResult(fetched, url_prefix).url_map
             /\ redirect_map = TutorialParseResult(fetched, url_prefix).redirect_map
             /\ warnings = TutorialParseResult(fetched, url_prefix).warnings
    /\ parser = "DocParser"
          => LET steps == DocParseSteps(fetched, url_prefix)
             IN  /\ steps.vt.exc = "none" /\ steps.nv.exc = "none" /\ steps.gen.exc = "none"
                 /\ versions = steps.nv.versions
                 /\ navigations = steps.nv.navigations
                 /\ url_map_versions = steps.gen.url_map
                 /\ url_map = steps.flat
                 /\ redirect_map = steps.redirects.redirect_map
                 /\ EndsWithSeq(warnings, steps.nv.warnings \o steps.gen.warnings
                                           \o steps.redirects.warnings)

\* a step in which parse() is called on the attributes that a parse() has
\* left, and fetches the same index topic
ParseAgainStep ==
    /\ pc = "idle" /\ AsParsed
    /\ pc' = "called" /\ last'.op = "parse"
    /\ fetched' = fetched

\* C11 as stated: a second parse() in a row on an unchanged index topic
\* leaves url_map, redirect_map, the navigation data and the warnings list
\* as the first call left them, for DocParser and for TutorialParser; the
\* second call does not lengthen the warnings list.
C11_ParseTwiceIdentical ==
    [][ (ParseAgainStep /\ parser \in {"DocParser", "TutorialParser"})
            => /\ url_map' = url_map
               /\ redirect_map' = redirect_map
               /\ versions' = versions
               /\ navigations' = navigations
               /\ url_map_versions' = url_map_versions
               /\ warnings' = warnings
      ]_vars

\* a view of the blueprint has produced its response
Responded == pc = "responded"

\* C12 as stated: at the end of every request handled by the Docs or the
\* Tutorials blueprint, whether it ends in a rendered page, a redirect, a 404
\* or a sitemap, parser.warnings is empty.
C12_WarningsEmptyAfterRequest ==
    (Responded /\ response.kind \in {"page", "redirect", "abort", "sitemap"})
        => warnings = <<>>

\* C13 as stated: the index topic is fetched and parsed by the first request
\* that needs the maps; a later request, which finds the index topic already
\* parsed, performs no further fetch of the index topic.
C13_IndexFetchedOnce ==
    [][ (pc = "idle" /\ index_topic = "fetched" /\ request'.view # "none")
            => request'.index_fetches = 0
      ]_vars

\* the path that the routes of the blueprint, registered under url_prefix,
\* give document_view for a URL of the site; None for a URL that is not
\* under the prefix
Route(url) ==
    IF StartsWith(url, RStrip(url_prefix) \o <<"/">>)
    THEN SubSeq(url, Len(RStrip(url_prefix)) + 1, Len(url))
    ELSE None

\* the topic of the forum that a request path names by a bare topic URL form
\* other than its canonical path, when the topic has no pretty path in
\* url_map; no topic otherwise
BareTopicOf(path) ==
    {t \in ShapeIds(path, FALSE) :
        /\ DictHas(ForumSlugs, t)
        /\ ~DictHas(url_map, KI(t))
        /\ TopicPath(t) # path
        /\ ~DictHas(redirect_map, NormalizedPath(path))
        /\ ~DictHas(url_map, KS(NormalizedPath(path)))}

\* C20 as stated: for a topic without a pretty path in the URL map, a request
\* to the Tutorials blueprint under a bare topic URL form other than the
\* canonical path is answered with a redirect to /t/<slug>/<id>, for which
\* resolve_path has returned the bare id, and a request for the redirect
\* target is served with the content of the topic, without another redirect.
C20_BareFormsRedirectToCanonical ==
    (Responded /\ parser = "TutorialParser" /\ request.view = "document_view")
        => \A t \in BareTopicOf(request.path) :
              /\ last.out = Returned(t, None)
              /\ response = Redirect(TopicPath(t))
              /\ Route(response.location) # None
              /\ TutorialsDocument(resolve_path(Route(response.location)),
                                   Route(response.location)) = Page(t, <<>>)

\* _process_nav_levels has been called on the items of the navigation table
LevelsBuilt == pc = "called" /\ last.op = "_process_nav_levels"

\* the rows of the navigation table of the index topic, and those with a
\* level cell that is a non-negative integer string
TableRows == fetched.navigation.ntable

ValidTableRows == SelectSeq(TableRows, NavRowValid)

\* the navigation item of a valid row
ItemOfRow(row) ==
    [level |-> ToInt(row.level), path |-> row.path, navlink_href |-> row.href,
     navlink_text |-> row.text, children |-> <<>>]

\* the items that the tree is built from: those of the valid rows, after a
\* synthetic empty level 0 item when the first of them is not of level 0
TreeItems ==
    LET items == [i \in 1..Len(ValidTableRows) |-> ItemOfRow(ValidTableRows[i])]
    IN  IF items # <<>> /\ items[1].level # 0
        THEN <<[level |-> 0, path |-> <<>>, navlink_href |-> None,
                navlink_text |-> None, children |-> <<>>]>> \o items
        ELSE items

\* the nodes of a forest in pre-order, each without its children
RECURSIVE PreOrder(_)
PreOrder(forest) ==
    IF forest = <<>> THEN <<>>
    ELSE <<[Head(forest) EXCEPT !.children = <<>>]>>
         \o PreOrder(Head(forest).children) \o PreOrder(Tail(forest))

\* every node of the forest is at the depth of its level, the roots at depth
RECURSIVE LevelsAreDepths(_, _)
LevelsAreDepths(forest, depth) ==
    \A i \in 1..Len(forest) :
        /\ forest[i].level = depth
        /\ LevelsAreDepths(forest[i].children, depth + 1)

IsLevelZero(item) == item.level = 0

\* the first level is 0 or 1 and no level exceeds the one before by two
WellFormedLevels(items) ==
    /\ items # <<>> => items[1].level \in {0, 1}
    /\ \A i \in 2..Len(items) : items[i].level <= items[i - 1].level + 1

\* C15 as stated: every row whose level cell is not a non-negative integer
\* string records exactly one 'Invalid level' warning and contributes no
\* item, every other row is placed in the tree at its own level, and the
\* tree build completes without error, also when a rejected row was the
\* parent of the rows that follow it.
C15_BadLevelRowExcluded ==
    LevelsBuilt
        => /\ Len(warnings) = Len(TableRows) - Len(ValidTableRows)
           /\ \A i \in 1..Len(TableRows) :
                 NavRowValid(TableRows[i])
                 \/ Count(warnings, InvalidLevelWarning(TableRows[i].level))
                    = Cardinality({j \in 1..Len(TableRows) :
                                      TableRows[j].level = TableRows[i].level})
           /\ last.out.exc = "none"
           /\ PreOrder(versions[1].nav_items) = TreeItems
           /\ LevelsAreDepths(versions[1].nav_items, 0)

\* C16 as stated: _process_nav_levels returns a forest without raising for
\* every list of items with non-negative integer levels, also when the
\* first level is 2 or more or a level exceeds the one before by two or more.
C16_NavLevelsNeverRaise ==
    LevelsBuilt => last.out.exc = "none"

\* C17: for items whose first level is 0 or 1 and whose levels are each at
\* most one greater than the level before, _process_nav_levels returns a
\* forest whose roots are exactly the level 0 items (a synthetic empty one
\* first when the first level is not 0), in which the items in pre-order are
\* the items of the input in their order and every item is at the depth of
\* its level, so that an item of level N > 0 is a child of the nearest
\* preceding item of level N - 1.
C17_WellFormedLevelsGiveForest ==
    (LevelsBuilt /\ WellFormedLevels(TreeItems))
        => /\ last.out.exc = "none"
           /\ PreOrder(versions[1].nav_items) = TreeItems
           /\ [i \in 1..Len(versions[1].nav_items) |->
                  [versions[1].nav_items[i] EXCEPT !.children = <<>>]]
              = SelectSeq(TreeItems, IsLevelZero)
           /\ LevelsAreDepths(versions[1].nav_items, 0)

\* three items of levels 1, 1, 2 built into a tree under the synthetic root,
\* the third a child of the second
C17_Witness_ChildOfNearestParent ==
    /\ LevelsBuilt
    /\ last.out.exc = "none"
    /\ Len(TreeItems) = 4
    /\ Len(versions[1].nav_items) = 1
    /\ Len(versions[1].nav_items[1].children) = 2
    /\ Len(versions[1].nav_items[1].children[2].children) = 1

\* _parse_redirect_map has returned for the Redirects table of the topic
RedirectMapParsed == pc = "called" /\ last.op = "_parse_redirect_map"

\* the row passes every check of _parse_redirect_map
RedirectRowAccepted(row) ==
    RedirectRowWellFormed(row, url_prefix) /\ ~DictHas(url_map, KS(row.path))

\* C18: after _parse_redirect_map every key of the redirect map starts with
\* url_prefix and every value starts with url_prefix or is a well-formed
\* absolute URL; each rejected row adds exactly one warning, and the rows
\* after a rejected row are still processed: every accepted row is in the
\* map, with the location of the last accepted row of its path.
C18_RedirectMapWellFormed ==
    RedirectMapParsed
        => LET rows == fetched.redirects.rows
               accepted == {i \in 1..Len(rows) : RedirectRowAccepted(rows[i])}
           IN  /\ \A i \in 1..Len(redirect_map) :
                     /\ StartsWith(redirect_map[i][1], url_prefix)
                     /\ StartsWith(redirect_map[i][2], url_prefix)
                        \/ ValidatorsUrl(redirect_map[i][2])
               /\ Len(warnings) = Len(rows) - Cardinality(accepted)
               /\ DictKeys(redirect_map) = {rows[i].path : i \in accepted}
               /\ \A i \in accepted :
                     (\A j \in accepted : rows[j].path = rows[i].path => j <= i)
                        => DictGet(redirect_map, rows[i].path) = rows[i].location

\* a rejected first row with its one warning, and the row after it in the map
C18_Witness_RowAfterRejectedRow ==
    /\ RedirectMapParsed
    /\ Len(fetched.redirects.rows) = 2
    /\ ~RedirectRowAccepted(fetched.redirects.rows[1])
    /\ RedirectRowAccepted(fetched.redirects.rows[2])
    /\ Len(warnings) = 1
    /\ DictHas(redirect_map, fetched.redirects.rows[2].path)

\* resolve_path_all_versions has just been called with last.path
AllVersionsResolved == pc = "called" /\ last.op = "resolve_path_all_versions"

\* the path under which _generate_url_map registers the index of a version
VersionHomePath(version) ==
    HomePath(IF version # <<>> THEN url_prefix \o <<"/">> \o version ELSE url_prefix)

\* C19 as stated: resolve_path_all_versions returns, without raising, one
\* entry per key of url_map_versions; the entry of version v is the path
\* re-derived under v when that path is a key of v's URL map and otherwise
\* the home path that _generate_url_map registered for v, so that every
\* returned path is a key of its version's URL map.
C19_AllVersionsHitOrHome ==
    AllVersionsResolved
        => /\ last.out.exc = "none"
           /\ Len(last.out.result) = Len(url_map_versions)
           /\ \A i \in 1..Len(url_map_versions) :
                 LET version == url_map_versions[i][1]
                     derived == VersionRelativePath(
                                    version,
                                    AllVersionsPath(last.path, last.out.version))
                 IN  /\ last.out.result[i][1] = version
                     /\ last.out.result[i][2]
                        = IF DictHas(url_map_versions[i][2], KS(derived)) THEN derived
                          ELSE VersionHomePath(version)
                     /\ DictHas(url_map_versions[i][2], KS(last.out.result[i][2]))

\* the navigation items that parse() gives the version once it is built
BuiltNavItems(version) ==
    _parse_navigation_table(NavSectionOf(version, index_topic_id, fetched.navigation,
                                         fetched.other)).nav_items

\* C14 as stated: while parse() runs beside a request on the same parser, no
\* shared structure is changed after it has become visible: once
\* self.versions is assigned no later step changes the versions or their
\* navigation items, the warnings list changes before the end of parse()
\* only by the assignment of a new list, and the versions that a concurrent
\* request renders have all their navigation items.
C14_NoInPlaceMutation ==
    [][ pc # "idle"
          => /\ versions' = versions
             /\ (pc' # "idle" /\ warnings' # warnings) => warnings' = <<>>
             /\ (response' # response /\ versions # NoVersions)
                   => \A i \in 1..Len(response'.body) :
                         response'.body[i].nav_items = BuiltNavItems(response'.body[i])
      ]_vars

\* _get_section has just been called with the title last.path
SectionTaken == pc = "called" /\ last.op = "_get_section"

\* every element of the soup, at any depth
RECURSIVE Descendants(_)
Descendants(soup) ==
    UNION { {soup[i]} \cup Descendants(soup[i].children) : i \in 1..Len(soup) }

\* the elements of the sequence before the first one of the tag
RECURSIVE UpToTag(_, _)
UpToTag(elements, tag) ==
    IF elements = <<>> \/ Head(elements).tag = tag THEN <<>>
    ELSE <<Head(elements)>> \o UpToTag(Tail(elements), tag)

\* C21 as stated: _get_section returns None when no h1-h6 heading has the
\* text of the title, and otherwise exactly the elements that follow the
\* first such heading up to, and excluding, the next heading of the same
\* tag (all of them when there is none), headings of other levels included.
C21_SectionUpToNextHeading ==
    SectionTaken
        => LET heading == FindHeading(fetched, last.path)
           IN  /\ last.out.none
                  = ~\E e \in Descendants(fetched) :
                        e.tag \in HeadingTags /\ e.text = last.path
               /\ ~last.out.none
                     => last.out.section = UpToTag(heading.siblings, heading.tag)

\* _replace_links has just been applied to an anchor with the href last.path
LinkReplaced == pc = "called" /\ last.op = "_replace_links"

\* the href without the forum's base URL
ForumPath(href) == IF StartsWith(href, base_url) THEN Tail(href) ELSE href

\* C22 as stated: an anchor without href is left unchanged; for an anchor
\* whose href, once the forum's base URL is removed, starts with "/", a
\* topic URL whose id is in url_map gets that topic's pretty path,
\* otherwise a path that is a key of redirect_map gets the redirect target,
\* and otherwise, links that are not topic URLs included, the href becomes
\* base_url + href.
C22_LinksReplaced ==
    LinkReplaced
        => IF last.path = None THEN last.out.href = None
           ELSE LET link == ForumPath(last.path)
                    full_path == PathJoin(url_prefix, LStrip(link))
                IN  StartsWith(link, <<"/">>)
                       => last.out.href
                          = IF TOPIC_URL_MATCH(link) # None
                               /\ DictHas(url_map, KI(ToInt(TOPIC_URL_MATCH(link))))
                            THEN DictGet(url_map, KI(ToInt(TOPIC_URL_MATCH(link))))
                            ELSE IF DictHas(redirect_map, full_path)
                            THEN DictGet(redirect_map, full_path)
                            ELSE base_url \o link

\* the step is a call of parse_topic for a version that has a navigation
ParseTopicStep ==
    pc = "idle" /\ last'.op = "parse_topic" /\ DictHas(navigations, last'.path)

\* the items of a navigation, parents before their children, as the call
\* that ended with exc leaves them; the level 0 parent that the call has
\* inserted is left out
ItemsLeft(nav_items, exc, before) ==
    LET items == IF exc = "none" THEN PreOrder(nav_items)
                 ELSE [i \in 1..Len(nav_items) |->
                          [nav_items[i] EXCEPT !.children = <<>>]]
    IN  IF Len(items) = Len(before) + 1 THEN Tail(items) ELSE items

\* the href matches the topic URL pattern and its id is a key of the map
LinkIsMapped(href, version_map) ==
    /\ Truthy(href)
    /\ _match_url_with_topic(href) # None
    /\ DictHas(version_map, KI(ToInt(_match_url_with_topic(href))))

\* C23 as stated: _generate_navigation replaces the navlink_href of an item
\* with url_map_versions[version][id] exactly when the href matches the
\* topic URL pattern and the id is a key of the version's URL map; the
\* navlink_href of every other item and the level, path and navlink_text of
\* every item are left unchanged.
C23_LinksOfMappedTopicsOnly ==
    [][ ParseTopicStep
          => LET version_map == DictGet(url_map_versions, last'.path)
                 before == PreOrder(DictGet(navigations, last'.path).nav_items)
                 after == ItemsLeft(DictGet(navigations', last'.path).nav_items,
                                    last'.out.exc, before)
             IN  /\ Len(after) = Len(before)
                 /\ \A i \in 1..Len(before) :
                       /\ after[i].level = before[i].level
                       /\ after[i].path = before[i].path
                       /\ after[i].navlink_text = before[i].navlink_text
                       /\ after[i].navlink_href
                          = IF LinkIsMapped(before[i].navlink_href, version_map)
                            THEN DictGet(version_map,
                                         KI(ToInt(_match_url_with_topic(
                                                      before[i].navlink_href))))
                            ELSE before[i].navlink_href
      ]_vars

\* parse_topic has returned for the version last.path
TopicParsed == pc = "called" /\ last.op = "parse_topic"

\* C30 as stated: after one parse(), every further parse_topic call for the
\* same docs version leaves parser.navigation with the tree of the first
\* call: run again on the built tree, the link rewrite and the tree build
\* return without raising and change no node, nesting, order or
\* navlink_href.
C30_ParseTopicAgainSameTree ==
    TopicParsed
        => /\ _generate_navigation(navigations, last.path, url_map_versions).exc = "none"
           /\ _generate_navigation(navigations, last.path, url_map_versions).navigation
              = DictGet(navigations, last.path)

\* the rows of the navigation table that link to the topic and have no path
PathlessLinksTo(topic_id) ==
    {i \in 1..Len(TableRows) :
        /\ NavRowValid(TableRows[i]) /\ TableRows[i].path = <<>>
        /\ Truthy(TableRows[i].href)
        /\ _match_url_with_topic(TableRows[i].href) # None
        /\ ToInt(_match_url_with_topic(TableRows[i].href)) = topic_id}

\* C28 as stated: in _generate_url_map a navigation row that links to the
\* index topic and leaves the path empty records no warning, a row that
\* links to another topic and leaves the path empty records exactly one
\* 'Missing topic path' warning, and neither adds an entry to the URL map.
C28_IndexLinkWithoutPathNotWarned ==
    (Len(versions) = 1 /\ versions[1].path = <<>>)
        => \A i \in 1..Len(TableRows) :
              LET href == TableRows[i].href
              IN  /\ i \in PathlessLinksTo(index_topic_id)
                        => Count(warnings, MissingPathWarning(href)) = 0
                  /\ \A topic_id \in {1, 2} :
                        i \in PathlessLinksTo(topic_id)
                           => /\ Count(warnings, MissingPathWarning(href))
                                 = Cardinality({j \in PathlessLinksTo(topic_id) :
                                                   TableRows[j].href = href})
                              /\ \/ ~DictHas(url_map_versions[1][2], KI(topic_id))
                                 \/ \E j \in 1..Len(TableRows) :
                                       /\ TableRows[j].path # <<>>
                                       /\ Truthy(TableRows[j].href)
                                       /\ _get_url_topic_id(TableRows[j].href) = topic_id

\* the request has reached a topic id, a PathNotFoundError or another site
RedirectsSettled ==
    /\ pc = "resolving"
    /\ \/ last.out.exc # "RedirectFoundError"
       \/ ~IsInternalTarget(last.out.target_url)

\* C29 as stated: re-requesting the target of each RedirectFoundError of
\* resolve_path, while the target is an internal path, reaches a topic id or
\* a PathNotFoundError after finitely many steps: the maps of one parse pass
\* hold no redirect cycle.
C29_RedirectsTerminate == (pc = "resolving") ~> RedirectsSettled

\* the metadata table of the topic is there, every row of it can be read and
\* it has the keys that the healthcheck of the page type requires
RequiredKeys ==
    (IF metadata.page_type = "takeovers" THEN {"title", "active"}
     ELSE {"path", "topic_name", "type", "active"})
        \cup metadata.additional_metadata_validation

TableKeys(cooked) ==
    {row[1][1] : row \in {cooked.rows[i] : i \in {j \in 1..Len(cooked.rows) :
                                                     /\ Len(cooked.rows[j]) = 2
                                                     /\ cooked.rows[j][1] # <<>>}}}

GoodMetadata(cooked) ==
    /\ cooked.contents /\ cooked.th = 2
    /\ \A i \in 1..Len(cooked.rows) :
          Len(cooked.rows[i]) = 0
             \/ (Len(cooked.rows[i]) = 2 /\ cooked.rows[i][1] # <<>>)
    /\ RequiredKeys \subseteq TableKeys(cooked)

ListedTopics ==
    SelectSeq([i \in 1..Len(fetched) |-> i],
              LAMBDA i : ~fetched[i].excluded /\ GoodMetadata(fetched[i].cooked))

\* C24 as stated: get_index and parse_active_takeovers leave out every topic
\* whose metadata table is missing, malformed or lacks a required key, return
\* every other topic in the original order, and do not raise because of one
\* bad topic.
C24_BadTopicsLeftOut ==
    last.op \in {"get_index", "parse_active_takeovers"}
        => /\ last.out.exc = "none"
           /\ last.out.value = ListedTopics

\* a request of the category view for a path that is the slug of no topic
UnmatchedPathRequested ==
    /\ pc = "idle" /\ pc' = "responded"
    /\ request'.view = "document_view"
    /\ request'.path # <<"/">>
    /\ \A i \in 1..Len(fetched) : fetched[i].slug # LStrip(request'.path)

\* C26 as stated: for a request path that matches no topic slug in the
\* category, _get_topic_id_from_path raises PathNotFoundError, the category
\* view answers 404 and api.get_topic is not called for the request.
C26_UnmatchedPathIs404 ==
    [][UnmatchedPathRequested
          => /\ last'.out.exc = "PathNotFoundError"
             /\ response' = Abort(404)
             /\ metadata'.get_topic_calls = metadata.get_topic_calls]_vars

\* C27 as stated: over any sequence of calls of _get_topic_id_from_path and
\* get_topics_in_category on one Category object,
\* api.get_topic_list_by_category is invoked at most once, by the first call,
\* whatever list that call returned.
C27_TopicListFetchedOnce == metadata.topic_list_calls <= 1

\* the frontpage topic has a heading 'Content', at any depth
RECURSIVE HasContentHeading(_)
HasContentHeading(soup) ==
    \E i \in 1..Len(soup) :
        \/ soup[i].tag \in HeadingTags /\ soup[i].text = <<"Content">>
        \/ HasContentHeading(soup[i].children)

\* the topic that the forum has for the path
TopicRequested(path) ==
    CHOOSE t \in ForumTopics(fetched) : path = t.id \/ path = t.slug \o <<"/">> \o t.id

IsFrontpagePath(path) == path = <<"f", "/", "3">>

DocumentGot == pc = "called" /\ last.op = "get_document"

\* what C25 says of the outcome of get_document
DocumentAsStated ==
    IF ~HasContentHeading(fetched)
    THEN /\ last.out.exc = "NavigationParseError"
         /\ last.out.document = _parse_document_topic(TopicRequested(last.path))
    ELSE /\ last.out.exc = "none"
         /\ ~IsFrontpagePath(last.path)
               => last.out.document = _parse_document_topic(TopicRequested(last.path))
         /\ IsFrontpagePath(last.path)
               => /\ last.out.document.forum_link
                        = _parse_document_topic(TopicRequested(last.path)).forum_link
                  /\ ~HasContentHeading(last.out.document.body_html)

\* C25 as stated: when the frontpage topic has no 'Content' heading,
\* get_document(path) raises NavigationParseError whose document is the fully
\* parsed document requested by path; when the navigation parses,
\* get_document returns (document, nav_html) and raises nothing.
C25_Original_DocumentOrNavigationError ==
    (DocumentGot /\ TopicsOfPath(last.path, ForumTopics(fetched)) # {})
        => DocumentAsStated

\* the forum answers the request for the path with a topic of the category
PathServed(path) ==
    /\ path \notin RedirectedPaths(ForumTopics(fetched))
    /\ \E t \in TopicsOfPath(path, ForumTopics(fetched)) : t.category_id = category_id

\* C25, amended: for a path that the forum answers with a topic of the
\* category, get_document(path) raises NavigationParseError whose document
\* is the fully parsed document requested by path when the frontpage topic
\* has no 'Content' heading, and returns (document, nav_html) and raises
\* nothing when the navigation parses.
C25_DocumentOrNavigationError ==
    (DocumentGot /\ PathServed(last.path)) => DocumentAsStated

C25_Witness_ErrorCarriesRequestedDocument ==
    /\ DocumentGot
    /\ last.path = <<"a", "/", "1">>
    /\ ~HasContentHeading(fetched)
    /\ fetched # <<>>
    /\ last.out.exc = "NavigationParseError"
    /\ last.out.document.title = <<"a">>

====
